---- MODULE Spec2Model ----
(***************************************************************************)
(* Seat allocation and aggregation of the electoral portal                 *)
(* (portal/views.py) over the tables of elections/models.py.               *)
(*                                                                         *)
(* Decimal percentages have two decimal places (models.py:68-70); they are *)
(* integers counted in hundredths of a percent: 3.00 is 300, 100.00 is     *)
(* 10000.  Character strings are sequences of code points, so that         *)
(* str.strip, str.lower and the lexicographic order of sorted() are        *)
(* computed as Python computes them.  A Python dict is the sequence of its *)
(* items in insertion order.                                               *)
(***************************************************************************)
EXTENDS Integers, Sequences, FiniteSets, TLC

VARIABLES
    votes_by_list,  \* argument of the allocator under call
    seats,          \* argument of the allocator under call
    called,         \* which function has been applied to the arguments
    result,         \* what the call produced
    districts,      \* table District: pk -> row
    lists,          \* table List: pk -> row
    scrutiny,       \* table Scrutiny: set of rows
    scrutiny_found, \* table Scrutiny as the last data-entry POST found it
    request,        \* the request the last handler served
    response,       \* context the last request handler rendered
    response_before,  \* what the handler before it rendered
    lists_payload,        \* the entry list under _ensure_full_percentage
    lists_payload_given,  \* that list as the caller built it
    latest_update_arg     \* argument latest_update of _ensure_full_percentage

vars == <<votes_by_list, seats, called, result, districts, lists, scrutiny,
          scrutiny_found, request, response, response_before, lists_payload,
          lists_payload_given, latest_update_arg>>

ensure_vars == <<lists_payload, lists_payload_given, latest_update_arg>>

\* No request has been served; and what the last request served rendered
NoResponse == [view |-> "none"]
Rendered == IF called = "none" THEN NoResponse ELSE response

----------------------------------------------------------------------------
(* Bounds of the model *)

MaxLists == 3
MaxSeats == 3

VoteValues == {0, 2000, 3000, 6000}

----------------------------------------------------------------------------
(* Program constants, portal/views.py:13-15 *)

MIN_PARTY_THRESHOLD == 300
TOTAL_PERCENTAGE == 10000
PERCENT_TOLERANCE == 1

\* Python's None where the other values are numbers (primary keys and
\* timestamps start at 1).
None == 0

----------------------------------------------------------------------------
(* Python helpers *)

\* What a call produces: `return v`, raised being TRUE when an exception
\* left the function instead.
Return(v) == [raised |-> FALSE, value |-> v]

Min(a, b) == IF a <= b THEN a ELSE b
Max(a, b) == IF a >= b THEN a ELSE b

RECURSIVE SumSeq(_)
SumSeq(s) == IF Len(s) = 0 THEN 0 ELSE Head(s) + SumSeq(Tail(s))

\* dict: keys, d[k], d.get(k, default), values in insertion order
Keys(d) == {d[i][1] : i \in 1..Len(d)}
Get(d, k, default) ==
    IF k \in Keys(d) THEN d[CHOOSE i \in 1..Len(d) : d[i][1] = k][2] ELSE default
Values(d) == [i \in 1..Len(d) |-> d[i][2]]

----------------------------------------------------------------------------
(* _dhondt_allocation, portal/views.py:72-90 *)

\* The comparison by the seats held alone: the list with fewer seats is ahead
QuotientLessBySeats(va, sa, vb, sb) == sa > sb

\* votes_by_list[a] / (allocation[a] + 1) < votes_by_list[b] / (allocation[b] + 1),
\* the comparison of two keys of line 86 (both divisors are positive).
QuotientLess(va, sa, vb, sb) == va * (sb + 1) < vb * (sa + 1)

BestListIdLast(vbl, allocation) ==
    LET q(i, j) == QuotientLess(vbl[i][2], allocation[vbl[i][1]],
                                vbl[j][2], allocation[vbl[j][1]])
        best == CHOOSE i \in 1..Len(vbl) :
                    /\ \A j \in 1..Len(vbl) : ~q(i, j)
                    /\ \A j \in (i+1)..Len(vbl) : q(j, i)
    IN  vbl[best][1]

\* The list with the most votes, whatever it has been given so far
BestListIdMostVotes(vbl, allocation) ==
    LET best == CHOOSE i \in 1..Len(vbl) :
                    /\ \A j \in 1..Len(vbl) : vbl[j][2] <= vbl[i][2]
                    /\ \A j \in 1..(i-1) : vbl[j][2] < vbl[i][2]
    IN  vbl[best][1]

\* max(votes_by_list, key=...): the first key, in the dict's iteration
\* order, whose quotient no other key exceeds.
BestListId(vbl, allocation) ==
    LET q(i, j) == QuotientLess(vbl[i][2], allocation[vbl[i][1]],
                                vbl[j][2], allocation[vbl[j][1]])
        best == CHOOSE i \in 1..Len(vbl) :
                    /\ \A j \in 1..Len(vbl) : ~q(i, j)
                    /\ \A j \in 1..(i-1) : q(j, i)
    IN  vbl[best][1]

\* The loop of lines 83-88: n rounds from the allocation given.
RECURSIVE DhondtRounds(_, _, _)
DhondtRounds(vbl, allocation, n) ==
    IF n = 0 THEN allocation
    ELSE LET best_list_id == BestListId(vbl, allocation)
         IN  DhondtRounds(vbl, [allocation EXCEPT ![best_list_id] = @ + 1], n - 1)

dhondt_allocation_raising(vbl, s) ==
    IF s < 0 THEN [raised |-> TRUE, value |-> <<>>]
    ELSE Return(DhondtRounds(vbl, [pk \in Keys(vbl) |-> 0],
                             IF Len(vbl) = 0 \/ SumSeq(Values(vbl)) = 0 THEN 0 ELSE s))

dhondt_allocation_extra_round(vbl, s) ==
    IF s <= 0 \/ Len(vbl) = 0 \/ SumSeq(Values(vbl)) = 0
    THEN Return([pk \in Keys(vbl) |-> 0])
    ELSE Return(DhondtRounds(vbl, [pk \in Keys(vbl) |-> 0], s + 1))

dhondt_allocation_unguarded(vbl, s) ==
    Return(DhondtRounds(vbl, [pk \in Keys(vbl) |-> 0],
                        IF Len(vbl) = 0 \/ s <= 0 THEN 0 ELSE s))

dhondt_allocation(vbl, s) ==
    LET allocation == [pk \in Keys(vbl) |-> 0]
    IN  IF s <= 0 \/ Len(vbl) = 0 THEN Return(allocation)
        ELSE LET total_votes == SumSeq(Values(vbl))
             IN  IF total_votes = 0 THEN Return(allocation)
                 ELSE Return(DhondtRounds(vbl, allocation, s))

----------------------------------------------------------------------------
(* _senate_allocation, portal/views.py:93-109 *)

\* The ranking with the higher primary key first among equal percentages
SenateBeforeHigherId(a, b) == a[2] > b[2] \/ (a[2] = b[2] /\ a[1] > b[1])

\* sorted(votes_by_list.items(), key=lambda item: (-item[1], item[0])):
\* the keys are pairwise different, so the order is total.
SenateBefore(a, b) == a[2] > b[2] \/ (a[2] = b[2] /\ a[1] < b[1])

SenateOrdered(vbl) ==
    LET rank(i) == Cardinality({j \in 1..Len(vbl) : SenateBefore(vbl[j], vbl[i])}) + 1
    IN  [r \in 1..Len(vbl) |-> vbl[CHOOSE i \in 1..Len(vbl) : rank(i) = r]]

senate_allocation_second_always(vbl, s) ==
    LET allocation == [pk \in Keys(vbl) |-> 0]
    IN  IF s <= 0 \/ Len(vbl) = 0 THEN Return(allocation)
        ELSE LET ordered == SenateOrdered(vbl)
                 top_list_id == ordered[1][1]
                 first_award == Min(s, 2)
                 a1 == [allocation EXCEPT ![top_list_id] = first_award]
             IN  IF Len(ordered) > 1
                 THEN Return([a1 EXCEPT ![ordered[2][1]] = 1])
                 ELSE Return(a1)

senate_allocation_all_to_top(vbl, s) ==
    LET allocation == [pk \in Keys(vbl) |-> 0]
    IN  IF s <= 0 \/ Len(vbl) = 0 THEN Return(allocation)
        ELSE Return([allocation EXCEPT ![SenateOrdered(vbl)[1][1]] = s])

senate_allocation(vbl, s) ==
    LET allocation == [pk \in Keys(vbl) |-> 0]
    IN  IF s <= 0 \/ Len(vbl) = 0 THEN Return(allocation)
        ELSE LET ordered == SenateOrdered(vbl)
                 top_list_id == ordered[1][1]
                 first_award == Min(s, 2)
                 a1 == [allocation EXCEPT ![top_list_id] = first_award]
                 remaining == s - first_award
             IN  IF remaining > 0 /\ Len(ordered) > 1
                 THEN Return([a1 EXCEPT ![ordered[2][1]] = Min(remaining, 1)])
                 ELSE Return(a1)

----------------------------------------------------------------------------
(* Character strings *)

\* str.strip(): the string without its leading and trailing whitespace
IsSpace(c) == c \in {9, 10, 11, 12, 13, 32}

RECURSIVE LStrip(_)
LStrip(s) == IF Len(s) > 0 /\ IsSpace(Head(s)) THEN LStrip(Tail(s)) ELSE s

RECURSIVE RStrip(_)
RStrip(s) ==
    IF Len(s) > 0 /\ IsSpace(s[Len(s)]) THEN RStrip(SubSeq(s, 1, Len(s) - 1)) ELSE s

Strip(s) == RStrip(LStrip(s))

\* The requested value taken as it was written
LowerSkipped(s) == s

\* str.lower() on ASCII
Lower(s) == [i \in 1..Len(s) |-> IF s[i] >= 65 /\ s[i] <= 90 THEN s[i] + 32 ELSE s[i]]

\* a < b in the order sorted() puts strings in
RECURSIVE StrLess(_, _)
StrLess(a, b) ==
    IF Len(b) = 0 THEN FALSE
    ELSE IF Len(a) = 0 THEN TRUE
    ELSE IF Head(a) # Head(b) THEN Head(a) < Head(b)
    ELSE StrLess(Tail(a), Tail(b))

\* "Otros", "ambos", "diputados", "senadores"
OTROS == <<79, 116, 114, 111, 115>>
DEFAULT_CHAMBER_FILTER == <<97, 109, 98, 111, 115>>
DEPUTIES == <<100, 105, 112, 117, 116, 97, 100, 111, 115>>
SENATORS == <<115, 101, 110, 97, 100, 111, 114, 101, 115>>
VALID_CHAMBER_FILTERS == {DEFAULT_CHAMBER_FILTER, DEPUTIES, SENATORS}

\* f"{percentage:.2f}" of a non-negative Decimal of two places: the digits
\* before and after the point.
Display(p) == <<p \div 100, p % 100>>

\* Decimal("0") and the quotient a / b, kept as the pair of its operands.
Zero == <<0, 1>>
Quotient(a, b) == <<a, b>>

----------------------------------------------------------------------------
(* Querysets over the tables of elections/models.py *)

\* The elements of S as a sequence in the order of Before, a total order on S
\* given as the set of its pairs <<earlier, later>>.
SortSet(S, Before) ==
    [r \in 1..Cardinality(S) |->
        CHOOSE x \in S : Cardinality({y \in S : <<y, x>> \in Before}) = r - 1]

\* sorted(seq, key=...) is stable: where the keys agree the order of seq is
\* kept. KeyLess is the set of the pairs <<a, b>> of elements with key(a) < key(b).
StableSort(seq, KeyLess) ==
    LET before == {<<i, j>> \in (DOMAIN seq) \X (DOMAIN seq) :
                     \/ <<seq[i], seq[j]>> \in KeyLess
                     \/ (<<seq[j], seq[i]>> \notin KeyLess /\ i < j)}
        order == SortSet(DOMAIN seq, before)
    IN  [r \in 1..Len(seq) |-> seq[order[r]]]

Range(seq) == {seq[i] : i \in DOMAIN seq}

\* District.Meta.ordering = ["name"]; the names are unique.
DistrictQueryset ==
    SortSet(DOMAIN districts,
            {<<a, b>> \in (DOMAIN districts) \X (DOMAIN districts) :
                StrLess(districts[a].name, districts[b].name)})

\* List.Meta.ordering within one district: chamber, order, code; the code is
\* unique within a district and chamber, and the primary key settles what is left.
ListBefore(a, b) ==
    LET la == lists[a]
        lb == lists[b]
    IN  \/ StrLess(la.chamber, lb.chamber)
        \/ /\ la.chamber = lb.chamber
           /\ \/ la.order < lb.order
              \/ la.order = lb.order /\ StrLess(la.code, lb.code)
              \/ la.order = lb.order /\ la.code = lb.code /\ a < b

DistrictLists(d) ==
    LET of_district == {l \in DOMAIN lists : lists[l].district = d}
    IN  SortSet(of_district,
                {<<a, b>> \in of_district \X of_district : ListBefore(a, b)})

\* Scrutiny.objects.order_by("-updated_at") of a list, and its first row
\* (next(iter(...), None)); NoScrutiny stands for None.
NoScrutiny == [pk |-> None, election_list |-> None, percentage |-> 0, updated_at |-> None]

\* The row saved first instead of the one saved last
FirstScrutinyOldest(l) ==
    LET rows == {r \in scrutiny : r.election_list = l}
    IN  IF rows = {} THEN NoScrutiny
        ELSE CHOOSE r \in rows : \A o \in rows : o.updated_at >= r.updated_at

FirstScrutiny(l) ==
    LET rows == {r \in scrutiny : r.election_list = l}
    IN  IF rows = {} THEN NoScrutiny
        ELSE CHOOSE r \in rows : \A o \in rows : o.updated_at <= r.updated_at

----------------------------------------------------------------------------
(* _ensure_full_percentage, portal/views.py:29-69 *)

\* An entry is a dict; the keys a given entry lacks hold "absent".
Percentages(entries) == [i \in 1..Len(entries) |-> entries[i].percentage]

IsPlaceholder(entry) == entry.id = None /\ entry.name = OTROS

\* lines 60-69
WithDisplayAndShare(entries) ==
    LET new_total == SumSeq(Percentages(entries))
    IN  [i \in 1..Len(entries) |->
            [entries[i] EXCEPT
                !.percentage_display = Display(entries[i].percentage),
                !.share = IF new_total <= 0 THEN Zero
                          ELSE Quotient(entries[i].percentage * TOTAL_PERCENTAGE, new_total)]]

ensure_full_percentage_skipped(entries, latest_update) ==
    IF Len(entries) = 0 THEN entries ELSE WithDisplayAndShare(entries)

\* The reconciler without the search of lines 38-41: the remainder always
\* goes to a new placeholder.
ensure_full_percentage_always_append(entries, latest_update) ==
    IF Len(entries) = 0 THEN entries
    ELSE LET remainder == TOTAL_PERCENTAGE - SumSeq(Percentages(entries))
         IN  IF remainder > PERCENT_TOLERANCE
             THEN WithDisplayAndShare(
                    Append(entries,
                           [id |-> None, code |-> <<45>>, name |-> OTROS,
                            alignment |-> OTROS, percentage |-> remainder,
                            percentage_display |-> "absent", seats |-> 0,
                            passes_threshold |-> "False",
                            updated_at |-> latest_update, share |-> "absent"]))
             ELSE WithDisplayAndShare(entries)

\* The reconciler giving the placeholder the total where line 49 and line 56
\* have the remainder
ensure_full_percentage_adds_total(entries, latest_update) ==
    IF Len(entries) = 0 THEN entries
    ELSE LET total == SumSeq(Percentages(entries))
             remainder == TOTAL_PERCENTAGE - total
             placeholders == {i \in 1..Len(entries) : IsPlaceholder(entries[i])}
         IN  IF remainder > PERCENT_TOLERANCE
             THEN IF placeholders = {}
                  THEN WithDisplayAndShare(
                         Append(entries,
                                [id |-> None, code |-> <<45>>, name |-> OTROS,
                                 alignment |-> OTROS, percentage |-> total,
                                 percentage_display |-> "absent", seats |-> 0,
                                 passes_threshold |-> "False",
                                 updated_at |-> latest_update, share |-> "absent"]))
                  ELSE LET existing == CHOOSE i \in placeholders :
                                           \A j \in placeholders : i <= j
                       IN  WithDisplayAndShare(
                             [entries EXCEPT ![existing].percentage = @ + total])
             ELSE WithDisplayAndShare(entries)

\* The reconciler with the test of line 37 against 0 instead of the tolerance
ensure_full_percentage_no_tolerance(entries, latest_update) ==
    IF Len(entries) = 0 THEN entries
    ELSE LET total == SumSeq(Percentages(entries))
             remainder == TOTAL_PERCENTAGE - total
             placeholders == {i \in 1..Len(entries) : IsPlaceholder(entries[i])}
         IN  IF remainder > 0
             THEN IF placeholders = {}
                  THEN WithDisplayAndShare(
                         Append(entries,
                                [id |-> None, code |-> <<45>>, name |-> OTROS,
                                 alignment |-> OTROS, percentage |-> remainder,
                                 percentage_display |-> "absent", seats |-> 0,
                                 passes_threshold |-> "False",
                                 updated_at |-> latest_update, share |-> "absent"]))
                  ELSE LET existing == CHOOSE i \in placeholders :
                                           \A j \in placeholders : i <= j
                       IN  WithDisplayAndShare(
                             [entries EXCEPT
                                ![existing].percentage = @ + remainder,
                                ![existing].updated_at =
                                    IF @ = None THEN latest_update ELSE @])
             ELSE WithDisplayAndShare(entries)

ensure_full_percentage(entries, latest_update) ==
    IF Len(entries) = 0 THEN entries
    ELSE LET total == SumSeq(Percentages(entries))
             remainder == TOTAL_PERCENTAGE - total
             placeholders == {i \in 1..Len(entries) : IsPlaceholder(entries[i])}
         IN  IF remainder > PERCENT_TOLERANCE
             THEN IF placeholders = {}
                  THEN WithDisplayAndShare(
                         Append(entries,
                                [id |-> None, code |-> <<45>>, name |-> OTROS,
                                 alignment |-> OTROS, percentage |-> remainder,
                                 percentage_display |-> "absent", seats |-> 0,
                                 passes_threshold |-> "False",
                                 updated_at |-> latest_update, share |-> "absent"]))
                  ELSE LET existing == CHOOSE i \in placeholders :
                                           \A j \in placeholders : i <= j
                       IN  WithDisplayAndShare(
                             [entries EXCEPT
                                ![existing].percentage = @ + remainder,
                                ![existing].updated_at =
                                    IF @ = None THEN latest_update ELSE @])
             ELSE WithDisplayAndShare(entries)

----------------------------------------------------------------------------
(* dashboard, portal/views.py:112-497 *)

\* The label without the strip() of line 183
AlignmentUnstripped(l) ==
    IF Len(lists[l].national_alignment) = 0 THEN lists[l].name
    ELSE lists[l].national_alignment

\* lines 182-184
Alignment(l) ==
    LET alignment == IF Len(lists[l].national_alignment) > 0
                     THEN Strip(lists[l].national_alignment) ELSE <<>>
    IN  IF Len(alignment) = 0 THEN lists[l].name ELSE alignment

\* `latest is None or updated_at > latest`, lines 206-217
Later(latest, updated_at) ==
    IF latest = None \/ updated_at > latest THEN updated_at ELSE latest

\* lines 155-170: the per-district accumulators before the loop over the lists
EmptyPayload ==
    [deputies_lists |-> <<>>, senators_lists |-> <<>>,
     deputies_votes |-> <<>>, eligible_votes |-> <<>>, senators_votes |-> <<>>,
     deputy_minor_total |-> 0, deputy_minor_latest_update |-> None,
     district_latest_update |-> None]

IsMinorBelowOrAt(l, percentage) ==
    lists[l].chamber = DEPUTIES /\ percentage <= MIN_PARTY_THRESHOLD

\* The test of lines 201-204 without the chamber
IsMinorAnyChamber(l, percentage) == percentage < MIN_PARTY_THRESHOLD

\* lines 201-204: a deputies list under the threshold
IsMinor(l, percentage) ==
    lists[l].chamber = DEPUTIES /\ percentage < MIN_PARTY_THRESHOLD

\* lines 185-189
IsEligible(l, percentage) ==
    lists[l].chamber = DEPUTIES /\ percentage >= MIN_PARTY_THRESHOLD

\* lines 176-217: one pass of the loop over district.lists.all()
ListStep(p, l) ==
    LET sc == FirstScrutiny(l)
        entry == [id |-> l, code |-> lists[l].code, name |-> lists[l].name,
                  alignment |-> Alignment(l), percentage |-> sc.percentage,
                  percentage_display |-> Display(sc.percentage), seats |-> 0,
                  passes_threshold |-> "absent", updated_at |-> sc.updated_at,
                  share |-> "absent"]
        dep == lists[l].chamber = DEPUTIES
        minor == IsMinor(l, sc.percentage)
    IN  IF sc = NoScrutiny THEN p
        ELSE [p EXCEPT
                !.deputies_votes = IF dep THEN Append(@, <<l, sc.percentage>>) ELSE @,
                !.senators_votes = IF dep THEN @ ELSE Append(@, <<l, sc.percentage>>),
                !.eligible_votes = IF IsEligible(l, sc.percentage)
                                   THEN Append(@, <<l, sc.percentage>>) ELSE @,
                !.deputy_minor_total = IF minor THEN @ + sc.percentage ELSE @,
                !.deputy_minor_latest_update =
                    IF minor THEN Later(@, sc.updated_at) ELSE @,
                !.deputies_lists = IF ~minor /\ dep THEN Append(@, entry) ELSE @,
                !.senators_lists = IF ~minor /\ ~dep THEN Append(@, entry) ELSE @,
                !.district_latest_update = Later(@, sc.updated_at)]

RECURSIVE ListLoop(_, _)
ListLoop(p, ls) ==
    IF Len(ls) = 0 THEN p ELSE ListLoop(ListStep(p, Head(ls)), Tail(ls))

\* lines 219-229
WithAggregatedEntry(p) ==
    IF p.deputy_minor_total > 0
    THEN [p EXCEPT !.deputies_lists =
            Append(@, [id |-> None, code |-> <<45>>, name |-> OTROS, alignment |-> OTROS,
                       percentage |-> p.deputy_minor_total,
                       percentage_display |-> Display(p.deputy_minor_total),
                       seats |-> 0, passes_threshold |-> "absent",
                       updated_at |-> IF p.deputy_minor_latest_update # None
                                      THEN p.deputy_minor_latest_update
                                      ELSE p.district_latest_update,
                       share |-> "absent"])]
    ELSE p

\* lines 233-236 and 260-263: entry["seats"] = allocation.get(entry["id"], 0)
WithSeats(entries, allocation) ==
    [i \in 1..Len(entries) |->
        [entries[i] EXCEPT !.seats = IF entries[i].id \in DOMAIN allocation
                                     THEN allocation[entries[i].id] ELSE 0]]

\* lines 241-243 and 268-270: key (-seats, -percentage, name)
EntryKeyLess(a, b) ==
    \/ a.seats > b.seats
    \/ a.seats = b.seats /\ a.percentage > b.percentage
    \/ a.seats = b.seats /\ a.percentage = b.percentage /\ StrLess(a.name, b.name)

\* The list left in the order the entries were appended in
SortEntriesSkipped(entries) == entries

\* entries.sort(key=lambda item: (-item["seats"], -item["percentage"], item["name"]))
SortEntries(entries) ==
    StableSort(entries,
               {<<a, b>> \in Range(entries) \X Range(entries) : EntryKeyLess(a, b)})

\* lines 155-284 for one district, without the national accumulators
DistrictData(d) ==
    LET p == WithAggregatedEntry(ListLoop(EmptyPayload, DistrictLists(d)))
        deputy_allocation == dhondt_allocation(p.eligible_votes, districts[d].renewal_seats).value
        senate_allocation_ ==
            senate_allocation(p.senators_votes, districts[d].senator_renewal_seats).value
        deputies_seated == WithSeats(p.deputies_lists, deputy_allocation)
        senators_seated == WithSeats(p.senators_lists, senate_allocation_)
        deputies == SortEntries(
            ensure_full_percentage(deputies_seated, p.district_latest_update))
        senators == SortEntries(
            ensure_full_percentage(senators_seated, p.district_latest_update))
    IN  [id |-> d,
         name |-> districts[d].name,
         deputy_seats |-> districts[d].renewal_seats,
         senator_seats |-> districts[d].senator_renewal_seats,
         registered_voters |-> districts[d].registered_voters,
         voter_base |-> districts[d].registered_voters,
         deputies_seated |-> deputies_seated,
         senators_seated |-> senators_seated,
         deputies |-> deputies,
         senators |-> senators,
         has_deputies |-> Len(deputies) > 0,
         has_senators |-> Len(senators) > 0,
         district_latest_update |-> p.district_latest_update]

\* defaultdict: d[k] += v
DictAdd(d, k, v) ==
    IF k \in Keys(d)
    THEN [i \in 1..Len(d) |-> IF d[i][1] = k THEN <<k, d[i][2] + v>> ELSE d[i]]
    ELSE Append(d, <<k, v>>)

\* lines 233-237 and 260-264: overall_totals[chamber][entry["alignment"]] += assigned
RECURSIVE AddSeats(_, _)
AddSeats(totals, entries) ==
    IF Len(entries) = 0 THEN totals
    ELSE AddSeats(DictAdd(totals, Head(entries).alignment, Head(entries).seats),
                  Tail(entries))

\* The sum without the votes of the entries that stand for no list
RECURSIVE AddWeightedVotesOfLists(_, _, _)
AddWeightedVotesOfLists(weighted, entries, voter_base) ==
    IF Len(entries) = 0 THEN weighted
    ELSE AddWeightedVotesOfLists(
            IF Head(entries).id = None THEN weighted
            ELSE DictAdd(weighted, Head(entries).alignment,
                         Head(entries).percentage * voter_base),
            Tail(entries), voter_base)

\* lines 250-256 and 278-284
RECURSIVE AddWeightedVotes(_, _, _)
AddWeightedVotes(weighted, entries, voter_base) ==
    IF Len(entries) = 0 THEN weighted
    ELSE AddWeightedVotes(
            DictAdd(weighted, Head(entries).alignment, Head(entries).percentage * voter_base),
            Tail(entries), voter_base)

\* lines 131-152: the accumulators before the loop over the districts
EmptyOverall ==
    [totals_deputies |-> <<>>, totals_senators |-> <<>>,
     weighted_deputies |-> <<>>, weighted_senators |-> <<>>,
     electors_deputies |-> 0, electors_senators |-> 0,
     overall_registered_total |-> 0,
     total_deputy_seats |-> 0, total_senate_seats |-> 0,
     total_lists_deputies |-> 0, total_lists_senators |-> 0,
     latest_update |-> None]

ContributesWithoutData(has_data, voter_base) == voter_base > 0

\* lines 248 and 276
Contributes(has_data, voter_base) == has_data /\ voter_base > 0

\* lines 171-173 and 231-284: what one district adds to the accumulators
DistrictStep(o, dd) ==
    [o EXCEPT
        !.overall_registered_total = IF dd.voter_base > 0 THEN @ + dd.voter_base ELSE @,
        !.totals_deputies = AddSeats(@, dd.deputies_seated),
        !.totals_senators = AddSeats(@, dd.senators_seated),
        !.total_deputy_seats = IF dd.has_deputies THEN @ + dd.deputy_seats ELSE @,
        !.total_lists_deputies = IF dd.has_deputies THEN @ + Len(dd.deputies) ELSE @,
        !.electors_deputies =
            IF Contributes(dd.has_deputies, dd.voter_base) THEN @ + dd.voter_base ELSE @,
        !.weighted_deputies =
            IF Contributes(dd.has_deputies, dd.voter_base)
            THEN AddWeightedVotes(@, dd.deputies, dd.voter_base) ELSE @,
        !.total_senate_seats =
            IF dd.has_senators /\ dd.senator_seats # 0 THEN @ + dd.senator_seats ELSE @,
        !.total_lists_senators = @ + Len(dd.senators),
        !.electors_senators =
            IF Contributes(dd.has_senators, dd.voter_base) THEN @ + dd.voter_base ELSE @,
        !.weighted_senators =
            IF Contributes(dd.has_senators, dd.voter_base)
            THEN AddWeightedVotes(@, dd.senators, dd.voter_base) ELSE @,
        !.latest_update =
            IF dd.district_latest_update = None THEN @
            ELSE Later(@, dd.district_latest_update)]

RECURSIVE DistrictLoop(_, _)
DistrictLoop(o, dds) ==
    IF Len(dds) = 0 THEN o ELSE DistrictLoop(DistrictStep(o, Head(dds)), Tail(dds))

\* The items computed without the test of the denominator of lines 343 and 361
OverallDistributionUnguarded(totals, weighted, denominator) ==
    LET alignments == Keys(totals) \cup Keys(weighted)
        before(a, b) ==
            \/ Get(totals, a, 0) > Get(totals, b, 0)
            \/ /\ Get(totals, a, 0) = Get(totals, b, 0)
               /\ \/ Get(weighted, a, 0) > Get(weighted, b, 0)
                  \/ Get(weighted, a, 0) = Get(weighted, b, 0) /\ StrLess(a, b)
        ordered == SortSet(alignments,
                           {<<a, b>> \in alignments \X alignments : before(a, b)})
    IN  [i \in 1..Len(ordered) |->
            [name |-> ordered[i],
             seats |-> Get(totals, ordered[i], 0),
             share |-> Quotient(Get(weighted, ordered[i], 0), denominator)]]

\* The items in the order of the alignment names alone
OverallDistributionByName(totals, weighted, denominator) ==
    LET alignments == Keys(totals) \cup Keys(weighted)
        ordered == SortSet(alignments,
                           {<<a, b>> \in alignments \X alignments : StrLess(a, b)})
    IN  [i \in 1..Len(ordered) |->
            [name |-> ordered[i],
             seats |-> Get(totals, ordered[i], 0),
             share |-> IF denominator # 0
                       THEN Quotient(Get(weighted, ordered[i], 0), denominator)
                       ELSE Zero]]

\* lines 328-362: the items of one chamber's national distribution
OverallDistribution(totals, weighted, denominator) ==
    LET alignments == Keys(totals) \cup Keys(weighted)
        before(a, b) ==
            \/ Get(totals, a, 0) > Get(totals, b, 0)
            \/ /\ Get(totals, a, 0) = Get(totals, b, 0)
               /\ \/ Get(weighted, a, 0) > Get(weighted, b, 0)
                  \/ Get(weighted, a, 0) = Get(weighted, b, 0) /\ StrLess(a, b)
        ordered == SortSet(alignments,
                           {<<a, b>> \in alignments \X alignments : before(a, b)})
    IN  [i \in 1..Len(ordered) |->
            [name |-> ordered[i],
             seats |-> Get(totals, ordered[i], 0),
             share |-> IF denominator # 0
                       THEN Quotient(Get(weighted, ordered[i], 0), denominator)
                       ELSE Zero]]

\* Every district with data, whatever the filter includes
DistrictsDataUnfiltered(dds, include_deputies, include_senators) ==
    LET shown == SelectSeq(dds, LAMBDA dd : dd.has_deputies \/ dd.has_senators)
    IN  [i \in 1..Len(shown) |->
            [id |-> shown[i].id,
             name |-> shown[i].name,
             renewal_seats |-> shown[i].deputy_seats,
             senator_renewal_seats |-> shown[i].senator_seats,
             registered_voters |-> shown[i].registered_voters,
             deputies |-> [seats |-> shown[i].deputy_seats, lists |-> shown[i].deputies],
             senators |-> [seats |-> shown[i].senator_seats, lists |-> shown[i].senators]]]

\* lines 298-324
DistrictsData(dds, include_deputies, include_senators) ==
    LET shown == SelectSeq(dds, LAMBDA dd : \/ include_deputies /\ dd.has_deputies
                                            \/ include_senators /\ dd.has_senators)
    IN  [i \in 1..Len(shown) |->
            [id |-> shown[i].id,
             name |-> shown[i].name,
             renewal_seats |-> shown[i].deputy_seats,
             senator_renewal_seats |-> shown[i].senator_seats,
             registered_voters |-> shown[i].registered_voters,
             deputies |-> [seats |-> shown[i].deputy_seats, lists |-> shown[i].deputies],
             senators |-> [seats |-> shown[i].senator_seats, lists |-> shown[i].senators]]]

\* lines 286-296 and 364-370
DistrictStatuses(dds, overall_registered_total) ==
    [i \in 1..Len(dds) |->
        [id |-> dds[i].id,
         name |-> dds[i].name,
         has_deputies |-> dds[i].has_deputies,
         has_senators |-> dds[i].has_senators,
         deputy_seats |-> dds[i].deputy_seats,
         senator_seats |-> dds[i].senator_seats,
         weight_percentage |->
            IF dds[i].voter_base > 0 /\ overall_registered_total > 0
            THEN Quotient(dds[i].voter_base * TOTAL_PERCENTAGE, overall_registered_total)
            ELSE <<>>]]

\* lines 372-397
OverallDistributions(include_deputies, include_senators, deputies_items, senators_items) ==
    IF include_senators /\ ~include_deputies
    THEN <<[label |-> "Senadores", items |-> senators_items]>>
    ELSE (IF include_deputies
          THEN <<[label |-> "Diputados", items |-> deputies_items]>> ELSE <<>>)
         \o (IF include_senators /\ Len(senators_items) > 0
             THEN <<[label |-> "Senadores", items |-> senators_items]>> ELSE <<>>)

\* lines 399-466
Stats(chamber_filter, include_deputies, include_senators, total_districts, o) ==
    <<[label |-> "Distritos escrutados", value |-> total_districts]>>
    \o (IF include_deputies
        THEN <<[label |-> "Bancas diputados en disputa", value |-> o.total_deputy_seats]>>
        ELSE <<>>)
    \o (IF include_senators
        THEN <<[label |-> "Bancas senadores en disputa", value |-> o.total_senate_seats]>>
        ELSE <<>>)
    \o <<[label |-> "Listas oficializadas",
          value |-> IF chamber_filter = DEFAULT_CHAMBER_FILTER
                    THEN o.total_lists_deputies + o.total_lists_senators
                    ELSE IF chamber_filter = DEPUTIES THEN o.total_lists_deputies
                    ELSE o.total_lists_senators],
         [label |-> "Ultima actualizacion", value |-> o.latest_update]>>

\* lines 154-284: the loop over district_queryset, district by district
DistrictResults ==
    LET queryset == DistrictQueryset
    IN  [i \in 1..Len(queryset) |-> DistrictData(queryset[i])]

\* The whole view: the context it renders for request.GET["chamber"] = param
\* (a request without the parameter is one with the default), dds being
\* what the loop over the districts computed.
dashboard(param, dds) ==
    LET lowered == Lower(param)
        chamber_filter ==
            IF lowered \in VALID_CHAMBER_FILTERS THEN lowered ELSE DEFAULT_CHAMBER_FILTER
        include_deputies == chamber_filter \in {DEFAULT_CHAMBER_FILTER, DEPUTIES}
        include_senators == chamber_filter \in {DEFAULT_CHAMBER_FILTER, SENATORS}
        o == DistrictLoop(EmptyOverall, dds)
        districts_data == DistrictsData(dds, include_deputies, include_senators)
    IN  [view |-> "dashboard",
         status |-> 200,
         chamber_filter |-> chamber_filter,
         show_deputies |-> include_deputies,
         show_senators |-> include_senators,
         districts |-> districts_data,
         district_statuses |-> DistrictStatuses(dds, o.overall_registered_total),
         overall_distributions |->
            OverallDistributions(
                include_deputies, include_senators,
                OverallDistribution(o.totals_deputies, o.weighted_deputies,
                                    o.electors_deputies),
                OverallDistribution(o.totals_senators, o.weighted_senators,
                                    o.electors_senators)),
         stats |-> Stats(chamber_filter, include_deputies, include_senators,
                         Len(districts_data), o)]

----------------------------------------------------------------------------
(* district_detail, portal/views.py:500-591 *)

\* raise Http404(...): no context is rendered and no allocator was called
NotFound == [view |-> "district_detail", status |-> 404, allocator_calls |-> <<>>]

\* Any chamber taken for one of the two
AnyDetailChamber(chamber) == TRUE

\* line 518
ValidDetailChamber(chamber) == chamber \in {DEPUTIES, SENATORS}

\* Every list taken to pass the threshold
PassesThresholdAlways(chamber, percentage) == TRUE

\* line 564
PassesThreshold(chamber, percentage) ==
    chamber = SENATORS \/ percentage >= MIN_PARTY_THRESHOLD

\* The lists of the district in descending order of their pks
DetailListsReversed(district_id, chamber) ==
    LET ls == SelectSeq(DistrictLists(district_id), LAMBDA l : lists[l].chamber = chamber)
    IN  [k \in 1..Len(ls) |-> ls[Len(ls) + 1 - k]]

\* lines 504-514: district.lists.all() is List.objects.filter(chamber=chamber)
DetailLists(district_id, chamber) ==
    SelectSeq(DistrictLists(district_id), LAMBDA l : lists[l].chamber = chamber)

\* lines 528-543: votes, eligible and latest_update after the first loop
RECURSIVE DetailVotes(_, _, _)
DetailVotes(acc, ls, chamber) ==
    IF Len(ls) = 0 THEN acc
    ELSE LET l == Head(ls)
             sc == FirstScrutiny(l)
         IN  IF sc = NoScrutiny THEN DetailVotes(acc, Tail(ls), chamber)
             ELSE DetailVotes(
                    [votes |-> Append(acc.votes, <<l, sc.percentage>>),
                     eligible |-> IF chamber = DEPUTIES /\ sc.percentage >= MIN_PARTY_THRESHOLD
                                  THEN Append(acc.eligible, <<l, sc.percentage>>)
                                  ELSE acc.eligible,
                     latest_update |-> Later(acc.latest_update, sc.updated_at)],
                    Tail(ls), chamber)

\* lines 553-559: sorted(district.lists.all(), key=(-votes.get(id, 0), order))
DetailSorted(ls, votes) ==
    StableSort(ls,
               {<<a, b>> \in Range(ls) \X Range(ls) :
                    \/ Get(votes, a, 0) > Get(votes, b, 0)
                    \/ Get(votes, a, 0) = Get(votes, b, 0) /\ lists[a].order < lists[b].order})

\* lines 560-577: the entry of one list
DetailEntry(l, chamber, allocation) ==
    LET sc == FirstScrutiny(l)
        stripped == Strip(lists[l].national_alignment)
    IN  [id |-> l,
         code |-> IF Len(lists[l].code) > 0 THEN lists[l].code ELSE <<45>>,
         name |-> lists[l].name,
         alignment |-> IF Len(stripped) > 0 THEN stripped ELSE lists[l].name,
         percentage |-> sc.percentage,
         percentage_display |-> "absent",
         seats |-> IF l \in DOMAIN allocation THEN allocation[l] ELSE 0,
         passes_threshold |-> IF PassesThreshold(chamber, sc.percentage)
                              THEN "True" ELSE "False",
         updated_at |-> sc.updated_at,
         share |-> "absent"]

\* lines 521-591: the context rendered for an existing district and a chamber
\* of the two
DetailContext(district_id, chamber) ==
    LET ls == DetailLists(district_id, chamber)
        acc == DetailVotes([votes |-> <<>>, eligible |-> <<>>, latest_update |-> None],
                           ls, chamber)
        allocation ==
            IF chamber = DEPUTIES
            THEN dhondt_allocation(acc.eligible, districts[district_id].renewal_seats).value
            ELSE senate_allocation(acc.votes,
                                   districts[district_id].senator_renewal_seats).value
        reported == SelectSeq(DetailSorted(ls, acc.votes),
                              LAMBDA l : FirstScrutiny(l) # NoScrutiny)
        payload == [k \in 1..Len(reported) |-> DetailEntry(reported[k], chamber, allocation)]
    IN  [view |-> "district_detail",
         status |-> 200,
         allocator_calls |-> IF chamber = DEPUTIES THEN <<"_dhondt_allocation">>
                             ELSE <<"_senate_allocation">>,
         district |-> district_id,
         chamber |-> chamber,
         chamber_label |-> IF chamber = DEPUTIES THEN "Diputados" ELSE "Senadores",
         lists |-> ensure_full_percentage(payload, acc.latest_update),
         latest_update |-> acc.latest_update]

\* The whole view
district_detail(district_id, chamber) ==
    IF district_id \notin DOMAIN districts THEN NotFound
    ELSE IF ~ValidDetailChamber(chamber) THEN NotFound
    ELSE DetailContext(district_id, chamber)

----------------------------------------------------------------------------
(* The data-entry POST, ingest/views.py:51-93 and ingest/forms.py *)

\* request.POST is a QueryDict: every key holds the sequence of the values
\* submitted under it, none when the key is absent, and get() gives the
\* last one.
Submitted(values) == Len(values) > 0
LastValue(values) == values[Len(values)]

IsDigit(c) == c \in 48..57

RECURSIVE DigitsValue(_)
DigitsValue(s) ==
    IF Len(s) = 0 THEN 0
    ELSE 10 * DigitsValue(SubSeq(s, 1, Len(s) - 1)) + (s[Len(s)] - 48)

RECURSIVE Pow10(_)
Pow10(n) == IF n = 0 THEN 1 ELSE 10 * Pow10(n - 1)

\* len(digit_tuple) of a Decimal with the coefficient c
RECURSIVE NumDigits(_)
NumDigits(c) == IF c < 10 THEN 1 ELSE 1 + NumDigits(c \div 10)

\* Decimal(str(value)) for a text made of a sign, digits and a point: the
\* sign, the coefficient and the number of decimal places as written.
ParseDecimal(s) ==
    LET signed == Len(s) > 0 /\ s[1] \in {43, 45}
        body == IF signed THEN Tail(s) ELSE s
        points == {i \in 1..Len(body) : body[i] = 46}
        point == IF points = {} THEN Len(body) + 1 ELSE CHOOSE i \in points : TRUE
        whole == SubSeq(body, 1, point - 1)
        fraction == SubSeq(body, point + 1, Len(body))
        figures == whole \o fraction
    IN  IF /\ Cardinality(points) <= 1
           /\ Len(figures) > 0
           /\ \A i \in 1..Len(figures) : IsDigit(figures[i])
        THEN [invalid |-> FALSE, negative |-> signed /\ s[1] = 45,
              coefficient |-> DigitsValue(figures), places |-> Len(fraction)]
        ELSE [invalid |-> TRUE, negative |-> FALSE, coefficient |-> 0, places |-> 0]

\* The text of a primary key, made of digits, as the integer the lookup
\* District.objects.get(pk=...) compares; any other text fails the lookup.
ParsePk(s) ==
    IF Len(s) > 0 /\ (\A i \in 1..Len(s) : IsDigit(s[i]))
    THEN Return(DigitsValue(s))
    ELSE [raised |-> TRUE, value |-> 0]

\* ModelChoiceField of SelectionForm.district: required, and the value must
\* be the primary key of a District.
CleanDistrict(values) ==
    IF ~Submitted(values) \/ LastValue(values) = <<>>
    THEN [raised |-> TRUE, value |-> None]
    ELSE LET pk == ParsePk(LastValue(values))
         IN  IF pk.raised \/ pk.value \notin DOMAIN districts
             THEN [raised |-> TRUE, value |-> None]
             ELSE Return(pk.value)

\* ChoiceField of SelectionForm.chamber over List.Chamber.choices
CleanChamber(values) ==
    IF Submitted(values) /\ LastValue(values) \in {DEPUTIES, SENATORS}
    THEN Return(LastValue(values))
    ELSE [raised |-> TRUE, value |-> <<>>]

\* An empty field of ScrutinyForm cleans to None
Blank == [raised |-> FALSE, blank |-> TRUE, value |-> 0]

\* The field without max_value
CleanPercentageNoMaximum(values) ==
    IF ~Submitted(values) \/ LastValue(values) = <<>> THEN Blank
    ELSE LET parsed == ParseDecimal(LastValue(values))
         IN  IF parsed.invalid \/ (parsed.negative /\ parsed.coefficient > 0)
                \/ parsed.places > 2
             THEN [raised |-> TRUE, blank |-> FALSE, value |-> 0]
             ELSE [raised |-> FALSE, blank |-> FALSE,
                   value |-> parsed.coefficient * Pow10(2 - parsed.places)]

\* ScrutinyForm.percentage: DecimalField(max_digits=5, decimal_places=2,
\* min_value=0, max_value=100, required=False), then clean_percentage.
\* The value is the percentage in hundredths, as the column
\* Scrutiny.percentage stores it.
CleanPercentage(values) ==
    IF ~Submitted(values) \/ LastValue(values) = <<>> THEN Blank
    ELSE LET parsed == ParseDecimal(LastValue(values))
             digit_count == NumDigits(parsed.coefficient)
             digits == IF parsed.places > digit_count THEN parsed.places ELSE digit_count
             decimals == parsed.places
             below_min == parsed.negative /\ parsed.coefficient > 0
             above_max == parsed.coefficient > 100 * Pow10(parsed.places)
         IN  IF \/ parsed.invalid
                \/ below_min
                \/ above_max
                \/ digits > 5
                \/ decimals > 2
                \/ digits - decimals > 5 - 2
             THEN [raised |-> TRUE, blank |-> FALSE, value |-> 0]
             ELSE [raised |-> FALSE, blank |-> FALSE,
                   value |-> parsed.coefficient * Pow10(2 - parsed.places)]

\* selected_district.lists.filter(chamber=...).order_by("order", "code")
SelectedLists(district, chamber) ==
    LET selected == {l \in DOMAIN lists : /\ lists[l].district = district
                                          /\ lists[l].chamber = chamber}
    IN  SortSet(selected,
                {<<a, b>> \in selected \X selected :
                    \/ lists[a].order < lists[b].order
                    \/ lists[a].order = lists[b].order
                       /\ StrLess(lists[a].code, lists[b].code)
                    \/ lists[a].order = lists[b].order
                       /\ lists[a].code = lists[b].code /\ a < b})

\* The loop without the delete of line 86
RECURSIVE SaveFormsKeepingRows(_, _, _, _, _)
SaveFormsKeepingRows(rows, forms_by_list, i, last_pk, now) ==
    IF i > Len(forms_by_list) THEN rows
    ELSE LET election_list == forms_by_list[i][1]
             percentage == forms_by_list[i][2]
         IN  IF percentage.blank
             THEN SaveFormsKeepingRows(rows, forms_by_list, i + 1, last_pk, now)
             ELSE SaveFormsKeepingRows(rows \cup {[pk |-> last_pk + 1,
                                                   election_list |-> election_list,
                                                   percentage |-> percentage.value,
                                                   updated_at |-> now + 1]},
                                       forms_by_list, i + 1, last_pk + 1, now + 1)

\* The loop of lines 83-91 over forms_by_list from position i on.  A row
\* created takes the next primary key and the time of its saving, which is
\* later than every time in the table.
RECURSIVE SaveForms(_, _, _, _, _)
SaveForms(rows, forms_by_list, i, last_pk, now) ==
    IF i > Len(forms_by_list) THEN rows
    ELSE LET election_list == forms_by_list[i][1]
             percentage == forms_by_list[i][2]
             kept == {r \in rows : r.election_list # election_list}
         IN  IF percentage.blank
             THEN SaveForms(kept, forms_by_list, i + 1, last_pk, now)
             ELSE SaveForms(kept \cup {[pk |-> last_pk + 1,
                                        election_list |-> election_list,
                                        percentage |-> percentage.value,
                                        updated_at |-> now + 1]},
                            forms_by_list, i + 1, last_pk + 1, now + 1)

MaxOf(S) == IF S = {} THEN 0 ELSE CHOOSE x \in S : \A y \in S : y <= x

\* DataEntryView.post: the Scrutiny table it leaves and its response; 200 is
\* the page rendered again with the errors, 302 the redirect after saving.
post(POST) ==
    LET district == CleanDistrict(POST.district)
        chamber == CleanChamber(POST.chamber)
    IN  IF district.raised \/ chamber.raised
        THEN [scrutiny |-> scrutiny,
              response |-> [view |-> "data_entry", status |-> 200,
                            selection_errors |-> TRUE, list_errors |-> {}]]
        ELSE LET selected == SelectedLists(district.value, chamber.value)
                 forms_by_list == [i \in 1..Len(selected) |->
                                     <<selected[i], CleanPercentage(POST.percentage[selected[i]])>>]
                 with_errors == {forms_by_list[i][1] : i \in
                                    {j \in 1..Len(selected) : forms_by_list[j][2].raised}}
             IN  IF with_errors # {}
                 THEN [scrutiny |-> scrutiny,
                       response |-> [view |-> "data_entry", status |-> 200,
                                     selection_errors |-> FALSE,
                                     list_errors |-> with_errors]]
                 ELSE [scrutiny |-> SaveForms(scrutiny, forms_by_list, 1,
                                              MaxOf({r.pk : r \in scrutiny}),
                                              MaxOf({r.updated_at : r \in scrutiny})),
                       response |-> [view |-> "data_entry", status |-> 302,
                                     selection_errors |-> FALSE, list_errors |-> {}]]

----------------------------------------------------------------------------
(* The allocators applied to every vote map and seat count of the bounds *)

\* Every dict of at most MaxLists items: distinct primary keys in any
\* insertion order, each with a percentage of VoteValues.
VoteMaps ==
    UNION {
        {m \in [1..n -> (1..MaxLists) \X VoteValues] :
            \A i, j \in 1..n : i # j => m[i][1] # m[j][1]}
        : n \in 0..MaxLists}

SeatInputs == (0 - 1)..MaxSeats

NoTables ==
    /\ districts = <<>>
    /\ lists = <<>>
    /\ scrutiny = {}
    /\ scrutiny_found = {}
    /\ request = <<>>
    /\ response = <<>>
    /\ response_before = NoResponse

\* No list is under reconciliation
NoPayload ==
    /\ lists_payload = <<>>
    /\ lists_payload_given = <<>>
    /\ latest_update_arg = None

\* The lists of the test district, at 50.00, 30.00 and 20.00, with the 3
\* seats of the test and with 6
ExampleVotes == <<<<1, 5000>>, <<2, 3000>>, <<3, 2000>>>>
ExampleSeats == {3, 6}

InitAlloc ==
    /\ \/ votes_by_list \in VoteMaps /\ seats \in SeatInputs
       \/ votes_by_list = ExampleVotes /\ seats \in ExampleSeats
    /\ called = "none"
    /\ result = Return(<<>>)
    /\ NoTables
    /\ NoPayload

CallDhondt ==
    /\ called = "none"
    /\ called' = "dhondt"
    /\ result' = dhondt_allocation(votes_by_list, seats)
    /\ UNCHANGED <<votes_by_list, seats, districts, lists, scrutiny, scrutiny_found,
                   request, response, response_before, ensure_vars>>

CallSenate ==
    /\ called = "none"
    /\ called' = "senate"
    /\ result' = senate_allocation(votes_by_list, seats)
    /\ UNCHANGED <<votes_by_list, seats, districts, lists, scrutiny, scrutiny_found,
                   request, response, response_before, ensure_vars>>

NextAlloc == CallDhondt \/ CallSenate

SpecAlloc == InitAlloc /\ [][NextAlloc]_vars

----------------------------------------------------------------------------
(* The dashboard over the snapshots of the bounds *)

MaxVoters == 2

PctValues == {0, 250, 300, 3999, 4000, 6000}

\* request.GET["chamber"]: absent (the default), "diputados", "SENADORES", "concejo"
ChamberParams ==
    {DEFAULT_CHAMBER_FILTER, DEPUTIES,
     <<83, 69, 78, 65, 68, 79, 82, 69, 83>>,
     <<99, 111, 110, 99, 101, 106, 111>>}

\* The ballot.  District 1 is named "S" and district 2 "N".  In district 1
\* the deputies lists B, A, C (pks 1-3, printed in the order A, B, C) and
\* the senate lists D, E, G (pks 4-6); in district 2 the deputies lists A,
\* H (pks 7, 8) and the senate list D (pk 9).  The alignments stored are
\* " F ", "", "F", "F ", " ", "B", "F", "A" and " F".
ListRows ==
    <<[district |-> 1, chamber |-> DEPUTIES, order |-> 2, code |-> <<66>>,
       name |-> <<66>>, national_alignment |-> <<32, 70, 32>>],
      [district |-> 1, chamber |-> DEPUTIES, order |-> 1, code |-> <<65>>,
       name |-> <<65>>, national_alignment |-> <<>>],
      [district |-> 1, chamber |-> DEPUTIES, order |-> 3, code |-> <<67>>,
       name |-> <<67>>, national_alignment |-> <<70>>],
      [district |-> 1, chamber |-> SENATORS, order |-> 1, code |-> <<68>>,
       name |-> <<68>>, national_alignment |-> <<70, 32>>],
      [district |-> 1, chamber |-> SENATORS, order |-> 2, code |-> <<69>>,
       name |-> <<69>>, national_alignment |-> <<32>>],
      [district |-> 1, chamber |-> SENATORS, order |-> 3, code |-> <<71>>,
       name |-> <<71>>, national_alignment |-> <<66>>],
      [district |-> 2, chamber |-> DEPUTIES, order |-> 1, code |-> <<65>>,
       name |-> <<65>>, national_alignment |-> <<70>>],
      [district |-> 2, chamber |-> DEPUTIES, order |-> 2, code |-> <<72>>,
       name |-> <<72>>, national_alignment |-> <<65>>],
      [district |-> 2, chamber |-> SENATORS, order |-> 1, code |-> <<68>>,
       name |-> <<68>>, national_alignment |-> <<32, 70>>]>>

\* No Scrutiny row for the list
NoPct == 0 - 1

\* One Scrutiny row for each list of L that pc gives a percentage; the rows
\* were saved in descending order of the lists' pks.
SavedRows(L, pc) ==
    {[pk |-> l, election_list |-> l, percentage |-> pc[l],
      updated_at |-> Len(ListRows) + 1 - l]
        : l \in {x \in L : pc[x] # NoPct}}

\* The tables with the seats in play rs and ss and the registered voters v of
\* the two districts, and the Scrutiny rows given.
TablesOf(rs, ss, v, rows) ==
    /\ districts = [d \in 1..2 |->
                      [name |-> IF d = 1 THEN <<83>> ELSE <<78>>,
                       renewal_seats |-> rs[d],
                       senator_renewal_seats |-> ss[d],
                       registered_voters |-> v[d]]]
    /\ lists = ListRows
    /\ scrutiny = rows
    /\ scrutiny_found = rows

Tables(rs, ss, v, L, pc) == TablesOf(rs, ss, v, SavedRows(L, pc))

\* The deputies of district 1 in depth: every percentage of its three lists
\* and every number of seats in play.
InitDeputies ==
    \E rs1 \in 0..MaxSeats, pc \in [{1, 2, 3} -> PctValues \cup {NoPct}] :
        Tables(<<rs1, 2>>, <<3, 3>>, <<1, 2>>, {1, 2, 3}, pc)

\* The senators of district 1 in depth.
InitSenators ==
    \E ss1 \in 0..MaxSeats, pc \in [{4, 5, 6} -> PctValues \cup {NoPct}] :
        Tables(<<3, 2>>, <<ss1, 3>>, <<1, 2>>, {4, 5, 6}, pc)

\* Both districts and both chambers: every count of registered voters, and
\* lists with and without data in each district and chamber; list 8 may be
\* reported at 0.00 or under the threshold.
InitNational ==
    \E v \in [1..2 -> 0..MaxVoters],
       pd \in [{1, 2, 7} -> {NoPct, 4000, 6000}],
       pm \in [{8} -> {NoPct, 0, 250}],
       ps \in [{4, 9} -> {NoPct, 6000}] :
        Tables(<<3, 2>>, <<3, 3>>, v, {1, 2, 4, 7, 8, 9},
               [l \in {1, 2, 4, 7, 8, 9} |->
                    IF l \in {4, 9} THEN ps[l] ELSE IF l = 8 THEN pm[l] ELSE pd[l]])

\* A second Scrutiny row, with a higher pk, for each list of H that hp gives
\* a percentage: saved before every row of SavedRows, or after them all.
SecondRows(H, hp) ==
    {[pk |-> Len(ListRows) + l, election_list |-> l, percentage |-> hp[l][1],
      updated_at |-> IF hp[l][2] = "earlier" THEN Len(ListRows) - l
                     ELSE 2 * Len(ListRows) + 1 - l]
        : l \in {x \in H : hp[x][1] # NoPct}}

\* Lists with no, one and two Scrutiny rows: lists 1 and 4 of district 1
\* may have a second row that differs from the first in its percentage,
\* and district 2 has one row for each of its lists 7 and 9.
InitHistory ==
    \E pc \in [{1, 2, 4} -> {NoPct, 4000}],
       hp \in [{1, 4} -> {<<NoPct, "earlier">>} \cup ({250, 6000} \X {"earlier", "later"})] :
        TablesOf(<<3, 2>>, <<3, 3>>, <<1, 2>>,
                 SavedRows({1, 2, 4, 7, 9},
                           [l \in {1, 2, 4, 7, 9} |->
                                IF l = 7 THEN 4000 ELSE IF l = 9 THEN 6000 ELSE pc[l]])
                 \cup SecondRows({1, 4}, hp))

InitDash ==
    /\ votes_by_list = <<>>
    /\ seats = 0
    /\ called = "none"
    /\ result = Return(<<>>)
    /\ request = <<>>
    /\ response = <<>>
    /\ response_before = NoResponse
    /\ NoPayload
    /\ (InitDeputies \/ InitSenators \/ InitNational \/ InitHistory)

Dashboard ==
    /\ called = "none"
    /\ called' = "dashboard"
    /\ LET dds == DistrictResults
       IN  \E param \in ChamberParams :
               /\ request' = [view |-> "dashboard", chamber |-> param]
               /\ response' = dashboard(param, dds)
               /\ response_before' = Rendered
    /\ UNCHANGED <<votes_by_list, seats, result, districts, lists, scrutiny,
                   scrutiny_found, ensure_vars>>

NextDash == Dashboard

SpecDash == InitDash /\ [][NextDash]_vars

----------------------------------------------------------------------------
(* district_detail over the snapshots of the bounds *)

\* The ids of the URL: the two districts and one that does not exist
DetailIds == 1..3

\* The chambers of the URL: "diputados", "senadores", "ambos", "DIPUTADOS"
DetailChambers ==
    {DEPUTIES, SENATORS, DEFAULT_CHAMBER_FILTER,
     <<68, 73, 80, 85, 84, 65, 68, 79, 83>>}

DistrictDetail ==
    /\ called \in {"none", "dashboard"}
    /\ called' = "district_detail"
    /\ \E district_id \in DetailIds, chamber \in DetailChambers :
          /\ request' = [view |-> "district_detail", district_id |-> district_id,
                         chamber |-> chamber]
          /\ response' = district_detail(district_id, chamber)
          /\ response_before' = Rendered
    /\ UNCHANGED <<votes_by_list, seats, result, districts, lists, scrutiny,
                   scrutiny_found, ensure_vars>>

NextDetail == DistrictDetail

SpecDetail == InitDash /\ [][NextDetail]_vars

----------------------------------------------------------------------------
(* The two views of the portal over the same snapshot: the dashboard, and
   the detail of a district requested at once or after the dashboard *)

\* The chambers of district 1 in depth, and the lists with several rows
InitPortal ==
    /\ votes_by_list = <<>>
    /\ seats = 0
    /\ called = "none"
    /\ result = Return(<<>>)
    /\ request = <<>>
    /\ response = <<>>
    /\ response_before = NoResponse
    /\ NoPayload
    /\ (InitDeputies \/ InitSenators \/ InitHistory)

NextPortal == Dashboard \/ DistrictDetail

SpecPortal == InitPortal /\ [][NextPortal]_vars

----------------------------------------------------------------------------
(* _ensure_full_percentage applied, twice over, to the entry lists of the bounds *)

MaxEntries == 2

\* The entries of the lists: the placeholder, an entry without id that is not
\* named "Otros", a list named "Otros" and a list named "A"; with 0.00, 0.01,
\* 40.00 or 59.99; without seats and timestamp or with both.
EntryShapes ==
    {[id |-> ident[1], code |-> <<45>>, name |-> ident[2], alignment |-> ident[2],
      percentage |-> pct, percentage_display |-> "absent", seats |-> won[1],
      passes_threshold |-> "absent", updated_at |-> won[2], share |-> "absent"]
        : ident \in {<<None, OTROS>>, <<None, <<65>>>>, <<1, OTROS>>, <<1, <<65>>>>},
          pct \in {0, 1, 4000, 5999},
          won \in {<<0, None>>, <<2, 1>>}}

EntryLists == UNION {[1..n -> EntryShapes] : n \in 0..MaxEntries}

InitEnsure ==
    /\ lists_payload \in EntryLists
    /\ lists_payload_given = lists_payload
    /\ latest_update_arg \in {None, 5}
    /\ votes_by_list = <<>>
    /\ seats = 0
    /\ called = "none"
    /\ result = Return(<<>>)
    /\ NoTables

\* _ensure_full_percentage(lists_payload, latest_update=latest_update_arg);
\* the function changes the list in place and returns None.
CallEnsure ==
    /\ called = "none"
    /\ called' = "ensure"
    /\ lists_payload' = ensure_full_percentage(lists_payload, latest_update_arg)
    /\ result' = Return(None)
    /\ UNCHANGED <<votes_by_list, seats, districts, lists, scrutiny, scrutiny_found,
                   request, response, response_before, lists_payload_given,
                   latest_update_arg>>

\* The same call on the list the first call left
CallEnsureAgain ==
    /\ called = "ensure"
    /\ called' = "ensure_again"
    /\ lists_payload' = ensure_full_percentage(lists_payload, latest_update_arg)
    /\ result' = Return(None)
    /\ UNCHANGED <<votes_by_list, seats, districts, lists, scrutiny, scrutiny_found,
                   request, response, response_before, lists_payload_given,
                   latest_update_arg>>

NextEnsure == CallEnsure \/ CallEnsureAgain

SpecEnsure == InitEnsure /\ [][NextEnsure]_vars

----------------------------------------------------------------------------
(* The data-entry POST over the tables that hold earlier records *)

\* The texts of a percentage field: "", "55.50", "2.5", "100", "100.01",
\* "-1", "1.234" and "abc"
PercentageTexts ==
    {<<>>, <<53, 53, 46, 53, 48>>, <<50, 46, 53>>, <<49, 48, 48>>,
     <<49, 48, 48, 46, 48, 49>>, <<45, 49>>, <<49, 46, 50, 51, 52>>, <<97, 98, 99>>}

\* A key that is absent, or present with one value
Field(texts) == {<<>>} \cup {<<t>> : t \in texts}

\* The forms submitted: the district "1", "2", "3" (no such district) or "";
\* the chamber "diputados", "senadores" or "DIPUTADOS"; every text for list
\* 1, some for lists 2, 4 and 7, and no key for the other lists.
PostData ==
    {[district |-> <<d>>, chamber |-> <<c>>,
      percentage |-> [l \in DOMAIN ListRows |->
                         IF l = 1 THEN p1 ELSE IF l = 2 THEN p2
                         ELSE IF l = 4 THEN p4 ELSE IF l = 7 THEN p7 ELSE <<>>]]
        : d \in {<<49>>, <<50>>, <<51>>, <<>>},
          c \in {DEPUTIES, SENATORS, <<68, 73, 80, 85, 84, 65, 68, 79, 83>>},
          p1 \in Field(PercentageTexts),
          p2 \in Field({<<>>, <<49, 48, 48>>, <<49, 48, 48, 46, 48, 49>>}),
          p4 \in Field({<<50, 46, 53>>, <<97, 98, 99>>}),
          p7 \in Field({<<50, 46, 53>>})}

InitIngest ==
    /\ votes_by_list = <<>>
    /\ seats = 0
    /\ called = "none"
    /\ result = Return(<<>>)
    /\ request = <<>>
    /\ response = <<>>
    /\ response_before = NoResponse
    /\ NoPayload
    /\ InitHistory

DataEntryPost ==
    /\ called = "none"
    /\ called' = "post"
    /\ \E POST \in PostData :
          LET served == post(POST)
          IN  /\ request' = [view |-> "data_entry", POST |-> POST]
              /\ scrutiny_found' = scrutiny
              /\ scrutiny' = served.scrutiny
              /\ response' = served.response
              /\ response_before' = Rendered
    /\ UNCHANGED <<votes_by_list, seats, result, districts, lists, ensure_vars>>

NextIngest == DataEntryPost

SpecIngest == InitIngest /\ [][NextIngest]_vars

----------------------------------------------------------------------------
(* Properties of the allocators, checked under SpecAlloc *)

RECURSIVE SumOver(_, _)
SumOver(f, S) ==
    IF S = {} THEN 0
    ELSE LET x == CHOOSE y \in S : TRUE IN f[x] + SumOver(f, S \ {x})

TotalSeats(allocation) == SumOver(allocation, DOMAIN allocation)
AllZero(allocation) == \A pk \in DOMAIN allocation : allocation[pk] = 0
TotalVotes == SumSeq(Values(votes_by_list))

\* The list a ranking by descending percentage, then ascending primary key,
\* puts in place r.
Ranked(r) ==
    CHOOSE pk \in Keys(votes_by_list) :
        Cardinality({o \in Keys(votes_by_list) :
            \/ Get(votes_by_list, o, 0) > Get(votes_by_list, pk, 0)
            \/ Get(votes_by_list, o, 0) = Get(votes_by_list, pk, 0) /\ o < pk}) = r - 1

\* C1: _dhondt_allocation never hands out more seats than max(seats, 0), and
\* hands out exactly `seats` when seats > 0, the map is not empty and the
\* votes sum to more than 0.
C1_DhondtTotal ==
    called = "dhondt" =>
        /\ ~result.raised
        /\ TotalSeats(result.value) <= Max(seats, 0)
        /\ (seats > 0 /\ Len(votes_by_list) > 0 /\ TotalVotes > 0)
              => TotalSeats(result.value) = seats

C1_Witness ==
    /\ called = "dhondt"
    /\ seats >= 3
    /\ Len(votes_by_list) >= 2
    /\ TotalSeats(result.value) = seats
    /\ Cardinality({pk \in DOMAIN result.value : result.value[pk] > 0}) >= 2

\* C3 as stated: with seats >= 2 and at least two lists, _senate_allocation
\* gives the top list exactly 2 seats and the second list exactly 1, every
\* other list 0, and min(seats, 3) seats in all.
C3_Original ==
    (called = "senate" /\ seats >= 2 /\ Len(votes_by_list) >= 2) =>
        /\ result.value[Ranked(1)] = 2
        /\ result.value[Ranked(2)] = 1
        /\ \A pk \in Keys(votes_by_list) \ {Ranked(1), Ranked(2)} : result.value[pk] = 0
        /\ TotalSeats(result.value) = Min(seats, 3)

\* C3 amended: with seats >= 2 and at least two lists, the top list gets
\* exactly 2 seats, the second list gets exactly 1 seat when seats >= 3 and
\* 0 when seats = 2, every list ranked third or lower gets 0, and
\* min(seats, 3) seats are awarded in all.
C3_SenateTwoPlusOne ==
    (called = "senate" /\ seats >= 2 /\ Len(votes_by_list) >= 2) =>
        /\ result.value[Ranked(1)] = 2
        /\ result.value[Ranked(2)] = (IF seats >= 3 THEN 1 ELSE 0)
        /\ \A pk \in Keys(votes_by_list) \ {Ranked(1), Ranked(2)} : result.value[pk] = 0
        /\ TotalSeats(result.value) = Min(seats, 3)

C3_Witness ==
    /\ called = "senate"
    /\ seats = 2
    /\ Len(votes_by_list) >= 3
    /\ result.value[Ranked(1)] = 2
    /\ result.value[Ranked(2)] = 0

\* The rounds _dhondt_allocation runs on the arguments of the call.
RoundsRun ==
    IF seats <= 0 \/ Len(votes_by_list) = 0 \/ TotalVotes = 0 THEN 0 ELSE seats

AllocationAfter(k) ==
    DhondtRounds(votes_by_list, [pk \in Keys(votes_by_list) |-> 0], k)

\* The list that won round k (rounds are counted from 1).
RoundWinner(k) ==
    CHOOSE pk \in Keys(votes_by_list) : AllocationAfter(k)[pk] = AllocationAfter(k - 1)[pk] + 1

\* The positions in the map of the lists whose quotient is maximal at the
\* start of round k.
RoundTied(k) ==
    LET a == AllocationAfter(k - 1)
    IN  {i \in 1..Len(votes_by_list) :
            \A j \in 1..Len(votes_by_list) :
                votes_by_list[j][2] * (a[votes_by_list[i][1]] + 1)
                    <= votes_by_list[i][2] * (a[votes_by_list[j][1]] + 1)}

\* C5 as stated: when several lists share the maximal quotient of a round,
\* the seat goes to the list with the lowest id, whatever the insertion order.
C5_Original ==
    called = "dhondt" =>
        \A k \in 1..RoundsRun :
            \A i \in RoundTied(k) : RoundWinner(k) <= votes_by_list[i][1]

\* C5 amended: when several lists share the maximal quotient of a round, the
\* seat goes to the one of them that was inserted first into the vote map
\* (the lowest id only if the ids were inserted in ascending order).
C5_FirstInsertedWins ==
    called = "dhondt" =>
        /\ result.value = AllocationAfter(RoundsRun)
        /\ \A k \in 1..RoundsRun :
              /\ RoundTied(k) # {}
              /\ \A i \in RoundTied(k) :
                    \E w \in RoundTied(k) :
                        w <= i /\ votes_by_list[w][1] = RoundWinner(k)

C5_Witness ==
    /\ called = "dhondt"
    /\ RoundsRun >= 2
    /\ \E k \in 1..RoundsRun :
          /\ Cardinality(RoundTied(k)) >= 2
          /\ \E i \in RoundTied(k) : votes_by_list[i][1] < RoundWinner(k)

\* C6 as stated: an allocator called with negative seats raises an error.
C6_Original ==
    (called # "none" /\ seats < 0) => result.raised

\* C6 amended: an allocator called with negative seats does not raise: it
\* treats the value like zero and returns every input id mapped to 0.
C6_NegativeSeatsClamped ==
    (called # "none" /\ seats < 0) =>
        /\ ~result.raised
        /\ DOMAIN result.value = Keys(votes_by_list)
        /\ AllZero(result.value)

C6_Witness ==
    /\ called = "dhondt"
    /\ seats < 0
    /\ Len(votes_by_list) >= 2
    /\ TotalVotes > 0
    /\ ~result.raised

\* C7: degenerate inputs are no errors.  _dhondt_allocation returns every
\* input id mapped to 0 when seats <= 0, the map is empty or the votes sum to
\* 0; _senate_allocation does when seats <= 0 or the map is empty; the
\* returned map always has exactly the keys of the input map.
C7_DegenerateInputs ==
    called # "none" =>
        /\ ~result.raised
        /\ DOMAIN result.value = Keys(votes_by_list)
        /\ (/\ called = "dhondt"
            /\ (seats <= 0 \/ Len(votes_by_list) = 0 \/ TotalVotes = 0))
              => AllZero(result.value)
        /\ (called = "senate" /\ (seats <= 0 \/ Len(votes_by_list) = 0))
              => AllZero(result.value)

C7_Witness ==
    /\ called = "dhondt"
    /\ seats > 0
    /\ Len(votes_by_list) >= 2
    /\ TotalVotes = 0
    /\ AllZero(result.value)

\* C8: _senate_allocation with seats > 0 and a non-empty map gives the top
\* list exactly min(seats, 2) seats; when the map holds one list only, that
\* list alone is awarded and the total is min(seats, 2).
C8_SenateTopAward ==
    (called = "senate" /\ seats > 0 /\ Len(votes_by_list) > 0) =>
        /\ result.value[Ranked(1)] = Min(seats, 2)
        /\ Len(votes_by_list) = 1 => TotalSeats(result.value) = Min(seats, 2)

C8_Witness ==
    /\ called = "senate"
    /\ seats >= 3
    /\ Len(votes_by_list) = 1
    /\ TotalSeats(result.value) = 2

\* The vote of a list of the map under call
VotesOf(pk) == Get(votes_by_list, pk, 0)

\* The allocations that k rounds can end in when every round gives one seat
\* to a list whose quotient votes / (seats so far + 1) no other list exceeds
RECURSIVE HighestQuotientRounds(_)
HighestQuotientRounds(k) ==
    IF k = 0 THEN {[pk \in Keys(votes_by_list) |-> 0]}
    ELSE {[p[1] EXCEPT ![p[2]] = @ + 1] :
            p \in {q \in HighestQuotientRounds(k - 1) \X Keys(votes_by_list) :
                      \A o \in Keys(votes_by_list) :
                          VotesOf(o) * (q[1][q[2]] + 1) <= VotesOf(q[2]) * (q[1][o] + 1)}}

\* C23: for a non-empty map with a positive total and seats > 0,
\* _dhondt_allocation returns what `seats` rounds in sequence give, each
\* round handing one seat to a list with the highest quotient; the lists at
\* 50.00, 30.00 and 20.00 get 3, 2 and 1 of 6 seats and 2, 1 and 0 of 3.
C23_HighestQuotientRounds ==
    (called = "dhondt" /\ Len(votes_by_list) > 0 /\ TotalVotes > 0 /\ seats > 0) =>
        /\ ~result.raised
        /\ result.value \in HighestQuotientRounds(seats)
        /\ (votes_by_list = ExampleVotes /\ seats = 6) =>
              result.value = (1 :> 3 @@ 2 :> 2 @@ 3 :> 1)
        /\ (votes_by_list = ExampleVotes /\ seats = 3) =>
              result.value = (1 :> 2 @@ 2 :> 1 @@ 3 :> 0)

C23_Witness ==
    /\ called = "dhondt"
    /\ votes_by_list = ExampleVotes
    /\ seats = 6
    /\ result.value = (1 :> 3 @@ 2 :> 2 @@ 3 :> 1)

\* pk is ahead of o in the senate ranking: a higher percentage or, with the
\* same percentage, a lower id
Ahead(pk, o) == VotesOf(pk) > VotesOf(o) \/ (VotesOf(pk) = VotesOf(o) /\ pk < o)

\* The lists ahead of pk
AheadOf(pk) == {o \in Keys(votes_by_list) : Ahead(o, pk)}

\* C24: _senate_allocation ranks the lists by descending percentage and,
\* among equal percentages, by ascending id: with seats > 0 the majority
\* award (2 seats, or the single seat) goes to the first of that ranking and
\* the minority award (the third seat) to the second, and no list gets more
\* seats than a list with a strictly higher percentage.
C24_SenateRanking ==
    (called = "senate" /\ seats > 0 /\ Len(votes_by_list) > 0) =>
        /\ ~result.raised
        /\ \A pk \in Keys(votes_by_list) :
              result.value[pk] =
                 (IF AheadOf(pk) = {} THEN Min(seats, 2)
                  ELSE IF Cardinality(AheadOf(pk)) = 1 /\ seats > 2 THEN 1
                  ELSE 0)
        /\ \A a, b \in Keys(votes_by_list) :
              VotesOf(a) > VotesOf(b) => result.value[a] >= result.value[b]

\* Three lists at the same percentage, the one with the lowest id inserted
\* last: it gets 2 seats, the next id 1 and the highest id none.
C24_Witness ==
    /\ called = "senate"
    /\ seats = 3
    /\ Len(votes_by_list) = 3
    /\ votes_by_list[3][1] = 1 /\ votes_by_list[1][1] = 3
    /\ \A i \in 1..3 : votes_by_list[i][2] = 3000
    /\ result.value = (1 :> 2 @@ 2 :> 1 @@ 3 :> 0)

\* C27: _dhondt_allocation gives a list with strictly more votes at least
\* as many seats as a list with fewer, and, when the votes sum to more than
\* 0, no seat to a list with 0 votes.
C27_DhondtMonotone ==
    called = "dhondt" =>
        /\ ~result.raised
        /\ \A a, b \in Keys(votes_by_list) :
              VotesOf(a) > VotesOf(b) => result.value[a] >= result.value[b]
        /\ TotalVotes > 0 =>
              \A pk \in Keys(votes_by_list) : VotesOf(pk) = 0 => result.value[pk] = 0

\* Three seats over a list without votes, inserted first, a list at 20.00
\* and a list at 60.00 inserted last: 0, 1 and 2 seats.
C27_Witness ==
    /\ called = "dhondt"
    /\ seats = 3
    /\ Len(votes_by_list) = 3
    /\ votes_by_list[1][2] = 0 /\ votes_by_list[2][2] = 2000 /\ votes_by_list[3][2] = 6000
    /\ result.value[votes_by_list[1][1]] = 0
    /\ result.value[votes_by_list[2][1]] = 1
    /\ result.value[votes_by_list[3][1]] = 2

----------------------------------------------------------------------------
(* Properties of the dashboard, checked under SpecDash *)

Served == called = "dashboard"

\* The percentage reported for a list: that of its most recent Scrutiny row.
HasReport(l) == \E r \in scrutiny : r.election_list = l
Reported(l) ==
    (CHOOSE r \in scrutiny :
        /\ r.election_list = l
        /\ \A o \in scrutiny : o.election_list = l => o.updated_at <= r.updated_at).percentage

\* The lists of a district and chamber that have a reported percentage.
ReportedLists(d, chamber) ==
    {l \in DOMAIN lists :
        lists[l].district = d /\ lists[l].chamber = chamber /\ HasReport(l)}

ReportedTotal(d, chamber) ==
    SumOver([l \in DOMAIN lists |-> IF HasReport(l) THEN Reported(l) ELSE 0],
            ReportedLists(d, chamber))

\* The entry list of a chamber in one district of the response.
ChamberLists(dd, chamber) ==
    IF chamber = DEPUTIES THEN dd.deputies.lists ELSE dd.senators.lists

SumField(entries, F(_)) == SumSeq([i \in 1..Len(entries) |-> F(entries[i])])

PercentageSum(entries) == SumField(entries, LAMBDA e : e.percentage)
SeatSum(entries) == SumField(entries, LAMBDA e : e.seats)

\* C2: in the deputies result of a district no list reported under 3.00 gets
\* a seat or an entry of its own, a list at 3.00 or more has its entry, the
\* votes under the threshold are shown by one synthetic "Otros" entry
\* (id = null) with 0 seats, and all the seats in play go to the lists at or
\* above the threshold.
C2_ThresholdAndOtros ==
    Served =>
        \A i \in 1..Len(response.districts) :
            LET dd == response.districts[i]
                entries == dd.deputies.lists
                reported == ReportedLists(dd.id, DEPUTIES)
                minor == {l \in reported : Reported(l) < 300}
                own(l) == {k \in 1..Len(entries) : entries[k].id = l}
                otros == {k \in 1..Len(entries) : entries[k].id = None}
                minor_total == SumOver([l \in DOMAIN lists |-> Reported(l)], minor)
            IN  /\ \A l \in minor : own(l) = {}
                /\ \A l \in reported \ minor : Cardinality(own(l)) = 1
                /\ \A k \in 1..Len(entries) :
                      entries[k].id # None =>
                          /\ entries[k].id \in reported \ minor
                          /\ entries[k].percentage = Reported(entries[k].id)
                /\ Cardinality(otros) <= 1
                /\ \A k \in otros : entries[k].name = OTROS /\ entries[k].seats = 0
                /\ minor_total > 0 =>
                      \E k \in otros : entries[k].percentage >= minor_total
                /\ SeatSum(entries) = (IF reported \ minor = {} THEN 0 ELSE dd.deputies.seats)

C2_Witness ==
    /\ Served
    /\ \E i \in 1..Len(response.districts) :
          LET entries == response.districts[i].deputies.lists
          IN  /\ \E l \in ReportedLists(response.districts[i].id, DEPUTIES) :
                    Reported(l) = 250
              /\ \E k \in 1..Len(entries) :
                    entries[k].percentage = 300 /\ entries[k].seats > 0
              /\ \E k \in 1..Len(entries) :
                    entries[k].id = None /\ entries[k].seats = 0

\* C4 as stated: every non-empty entry list that _ensure_full_percentage has
\* run on sums to 100.00 within 0.01.
C4_Original ==
    Served =>
        \A i \in 1..Len(response.districts), chamber \in {DEPUTIES, SENATORS} :
            LET entries == ChamberLists(response.districts[i], chamber)
            IN  Len(entries) > 0 =>
                    /\ PercentageSum(entries) >= TOTAL_PERCENTAGE - PERCENT_TOLERANCE
                    /\ PercentageSum(entries) <= TOTAL_PERCENTAGE + PERCENT_TOLERANCE

\* C4 amended: a non-empty entry list that _ensure_full_percentage has run
\* on sums to 100.00 within 0.01 provided the percentages it was given sum to
\* no more than 100.01; a list given more is left with the sum it had.
C4_ClosedUnlessOver ==
    Served =>
        \A i \in 1..Len(response.districts), chamber \in {DEPUTIES, SENATORS} :
            LET entries == ChamberLists(response.districts[i], chamber)
                given == ReportedTotal(response.districts[i].id, chamber)
            IN  Len(entries) > 0 =>
                    IF given <= TOTAL_PERCENTAGE + PERCENT_TOLERANCE
                    THEN /\ PercentageSum(entries) >= TOTAL_PERCENTAGE - PERCENT_TOLERANCE
                         /\ PercentageSum(entries) <= TOTAL_PERCENTAGE + PERCENT_TOLERANCE
                    ELSE PercentageSum(entries) = given

C4_Witness ==
    /\ Served
    /\ \E i \in 1..Len(response.districts) :
          /\ ReportedTotal(response.districts[i].id, SENATORS) = 6250
          /\ Len(response.districts[i].senators.lists) = 3
          /\ PercentageSum(response.districts[i].senators.lists) = TOTAL_PERCENTAGE

\* The label of a list: its national_alignment without the blanks around it
\* or, when nothing is left, its name.
Label(l) ==
    LET raw == lists[l].national_alignment
        inked == {k \in 1..Len(raw) : ~IsSpace(raw[k])}
        first == CHOOSE k \in inked : \A o \in inked : k <= o
        last == CHOOSE k \in inked : \A o \in inked : k >= o
    IN  IF inked = {} THEN lists[l].name ELSE SubSeq(raw, first, last)

\* The chamber a block of overall_distributions is about.
BlockChamber(block) == IF block.label = "Diputados" THEN DEPUTIES ELSE SENATORS

\* The seats the response shows, over all districts, for the lists of a
\* chamber whose label is the alignment.
SeatsOfAlignment(chamber, alignment) ==
    SumSeq([i \in 1..Len(response.districts) |->
        SumField(ChamberLists(response.districts[i], chamber),
                 LAMBDA e : IF e.id # None /\ Label(e.id) = alignment THEN e.seats ELSE 0)])

\* C9: the national seat total of an alignment in a chamber is the sum, over
\* all districts, of the seats of the chamber's lists whose label is that
\* alignment, the label being the stripped national_alignment or, when that
\* is blank, the list's name.
C9_SeatsByAlignment ==
    Served =>
        \A b \in 1..Len(response.overall_distributions) :
            LET block == response.overall_distributions[b]
                chamber == BlockChamber(block)
            IN  /\ \A k \in 1..Len(block.items) :
                      block.items[k].seats = SeatsOfAlignment(chamber, block.items[k].name)
                /\ \A k, m \in 1..Len(block.items) :
                      block.items[k].name = block.items[m].name => k = m
                /\ \A i \in 1..Len(response.districts) :
                      LET entries == ChamberLists(response.districts[i], chamber)
                      IN  \A e \in 1..Len(entries) :
                              entries[e].id # None =>
                                  \E k \in 1..Len(block.items) :
                                      block.items[k].name = Label(entries[e].id)

C9_Witness ==
    /\ Served
    /\ Len(response.districts) = 2
    /\ \E b \in 1..Len(response.overall_distributions) :
          LET block == response.overall_distributions[b]
          IN  /\ block.label = "Diputados"
              /\ \E k \in 1..Len(block.items) :
                    /\ block.items[k].name = <<70>>
                    /\ block.items[k].seats = 4
                    /\ \A i \in 1..2 :
                          \E e \in 1..Len(response.districts[i].deputies.lists) :
                              LET entry == response.districts[i].deputies.lists[e]
                              IN  /\ entry.id # None
                                  /\ Label(entry.id) = <<70>>
                                  /\ entry.seats > 0
                                  /\ lists[entry.id].national_alignment # <<70>>
                                        \/ response.districts[i].id = 2

\* The districts of the response that contribute to a chamber's national
\* share: those with data for the chamber and registered voters.
Contributing(chamber) ==
    {i \in 1..Len(response.districts) :
        /\ Len(ChamberLists(response.districts[i], chamber)) > 0
        /\ response.districts[i].registered_voters > 0}

WeightedOfAlignment(chamber, alignment) ==
    SumSeq([i \in 1..Len(response.districts) |->
        IF i \in Contributing(chamber)
        THEN response.districts[i].registered_voters
               * SumField(ChamberLists(response.districts[i], chamber),
                          LAMBDA e : IF e.alignment = alignment THEN e.percentage ELSE 0)
        ELSE 0])

ElectorsOf(chamber) ==
    SumSeq([i \in 1..Len(response.districts) |->
        IF i \in Contributing(chamber) THEN response.districts[i].registered_voters ELSE 0])

\* C10: the national share of an alignment in a chamber is the sum, over the
\* contributing districts, of the alignment's reconciled percentages times
\* the district's registered voters, divided by the registered voters of the
\* contributing districts; a district contributes iff it has data for the
\* chamber and registered voters, and the others add nothing to either sum.
C10_WeightedShare ==
    Served =>
        \A b \in 1..Len(response.overall_distributions) :
            LET block == response.overall_distributions[b]
                chamber == BlockChamber(block)
            IN  Contributing(chamber) # {} =>
                    \A k \in 1..Len(block.items) :
                        block.items[k].share =
                            Quotient(WeightedOfAlignment(chamber, block.items[k].name),
                                     ElectorsOf(chamber))

C10_Witness ==
    /\ Served
    /\ Len(response.districts) = 2
    /\ response.districts[1].registered_voters = 2
    /\ response.districts[2].registered_voters = 1
    /\ Len(response.districts[1].deputies.lists) > 0
    /\ Len(response.districts[2].deputies.lists) = 0
    /\ Len(response.districts[1].senators.lists) > 0
    /\ Len(response.districts[2].senators.lists) > 0
    /\ \E b \in 1..Len(response.overall_distributions) :
          LET block == response.overall_distributions[b]
          IN  /\ block.label = "Diputados"
              /\ \E k \in 1..Len(block.items) : block.items[k].share = <<12000, 2>>

\* C11: when no district with data for a chamber has registered voters, the
\* national share of every alignment of the chamber is 0 and the seat totals
\* are still the sums of the seats allocated in the districts.
C11_ZeroDenominator ==
    Served =>
        \A b \in 1..Len(response.overall_distributions) :
            LET block == response.overall_distributions[b]
                chamber == BlockChamber(block)
            IN  Contributing(chamber) = {} =>
                    \A k \in 1..Len(block.items) :
                        /\ block.items[k].share = Zero
                        /\ block.items[k].seats =
                               SeatsOfAlignment(chamber, block.items[k].name)

C11_Witness ==
    /\ Served
    /\ Contributing(DEPUTIES) = {}
    /\ \E i \in 1..Len(response.districts) :
          /\ response.districts[i].registered_voters > 0
          /\ Len(response.districts[i].deputies.lists) = 0
    /\ \E i \in 1..Len(response.districts) :
          /\ response.districts[i].registered_voters = 0
          /\ Len(response.districts[i].deputies.lists) > 0
    /\ \E b \in 1..Len(response.overall_distributions) :
          LET block == response.overall_distributions[b]
          IN  /\ block.label = "Diputados"
              /\ \E k \in 1..Len(block.items) :
                    block.items[k].seats > 0 /\ block.items[k].share = Zero

\* C12 as stated: a chamber's block is absent from overall_distributions
\* whenever its item list would be empty, for deputies as for senators and
\* under every chamber filter.
C12_Original ==
    Served =>
        \A b \in 1..Len(response.overall_distributions) :
            Len(response.overall_distributions[b].items) > 0

\* The entries of a list that are the placeholder: id = null and name "Otros".
Placeholders(entries) == {k \in 1..Len(entries) : IsPlaceholder(entries[k])}

\* The sum of the percentages of the entries that stand for a list.
ShownSum(entries) ==
    SumField(entries, LAMBDA e : IF e.id # None THEN e.percentage ELSE 0)

\* A district's reported deputies percentages fall short of 100.00 by more
\* than 0.01.
FallsShort(d, chamber) ==
    /\ ReportedLists(d, chamber) # {}
    /\ TOTAL_PERCENTAGE - ReportedTotal(d, chamber) > PERCENT_TOLERANCE

\* Exactly one "Otros" entry, with 0 seats and 100.00 minus the percentages
\* of the lists shown.
OneOtrosClosing(entries) ==
    /\ Cardinality(Placeholders(entries)) = 1
    /\ \A k \in Placeholders(entries) :
          /\ entries[k].seats = 0
          /\ entries[k].percentage = TOTAL_PERCENTAGE - ShownSum(entries)

\* C13 as stated: the deputies result of a district whose reported
\* percentages fall short of 100.00 by more than 0.01 has exactly one "Otros"
\* entry, with 0 seats and the sub-threshold percentages plus the unreported
\* remainder, i.e. 100.00 minus the percentages of the lists shown.
C13_Original ==
    Served =>
        \A i \in 1..Len(response.districts) :
            FallsShort(response.districts[i].id, DEPUTIES) =>
                OneOtrosClosing(response.districts[i].deputies.lists)

\* C13 amended: the same, provided some deputies list of the district is
\* reported above 0.00; when every reported percentage is 0.00 the deputies
\* result of the district is empty and has no "Otros" entry.
C13_OtrosAbsorbsRemainder ==
    Served =>
        \A i \in 1..Len(response.districts) :
            LET dd == response.districts[i]
                entries == dd.deputies.lists
                reported == ReportedLists(dd.id, DEPUTIES)
                minor == {l \in reported : Reported(l) < MIN_PARTY_THRESHOLD}
            IN  FallsShort(dd.id, DEPUTIES) =>
                    IF \E l \in reported : Reported(l) > 0
                    THEN /\ OneOtrosClosing(entries)
                         /\ \A k \in Placeholders(entries) :
                               entries[k].percentage =
                                   SumOver([l \in DOMAIN lists |-> Reported(l)], minor)
                                     + (TOTAL_PERCENTAGE - ReportedTotal(dd.id, DEPUTIES))
                    ELSE Len(entries) = 0

C13_Witness ==
    /\ Served
    /\ \E i \in 1..Len(response.districts) :
          LET dd == response.districts[i]
              entries == dd.deputies.lists
          IN  /\ ReportedTotal(dd.id, DEPUTIES) = 6250
              /\ Len(entries) = 2
              /\ entries[1].percentage = 6000 /\ entries[1].seats = 3
              /\ entries[2].id = None /\ entries[2].percentage = 4000
              /\ entries[2].seats = 0

----------------------------------------------------------------------------
(* Properties of _ensure_full_percentage, checked under SpecEnsure *)

\* C14: a second run of _ensure_full_percentage on its own output leaves the
\* number of entries and every entry's percentage and seats as they were, and
\* recomputes the display and share fields to the same values.
C14_Idempotent ==
    [][(called = "ensure" /\ called' = "ensure_again") =>
          /\ Len(lists_payload') = Len(lists_payload)
          /\ \A k \in 1..Len(lists_payload) :
                /\ lists_payload'[k].percentage = lists_payload[k].percentage
                /\ lists_payload'[k].seats = lists_payload[k].seats
                /\ lists_payload'[k].percentage_display = lists_payload[k].percentage_display
                /\ lists_payload'[k].share = lists_payload[k].share]_vars

C14_Witness ==
    /\ called = "ensure_again"
    /\ Len(lists_payload_given) = 2
    /\ SumSeq(Percentages(lists_payload_given)) = 4001
    /\ Len(lists_payload) = 3
    /\ lists_payload[3].percentage = 5999
    /\ lists_payload[1].seats = 2

\* The entries without id that are named 'Otros'
PlaceholdersIn(entries) ==
    {k \in 1..Len(entries) : entries[k].id = None /\ entries[k].name = OTROS}

GivenRemainder == TOTAL_PERCENTAGE - SumSeq(Percentages(lists_payload_given))

\* The entries of the list given are in their places with the seats, id
\* and name they had, and with the percentage they had except at position k
KeptExcept(k) ==
    /\ Len(lists_payload) >= Len(lists_payload_given)
    /\ \A j \in 1..Len(lists_payload_given) :
          /\ lists_payload[j].seats = lists_payload_given[j].seats
          /\ lists_payload[j].id = lists_payload_given[j].id
          /\ lists_payload[j].name = lists_payload_given[j].name
          /\ j # k => lists_payload[j].percentage = lists_payload_given[j].percentage

\* C25: on a non-empty list whose remainder exceeds 0.01,
\* _ensure_full_percentage adds the remainder to the placeholder (id null,
\* name 'Otros') the list has, or else appends one placeholder with the
\* remainder, 0 seats, passes_threshold false and updated_at = latest_update;
\* with a remainder of at most 0.01 it adds no entry and changes no
\* percentage.  A list with at most one placeholder has at most one
\* afterwards, and the seats of the entries given never change.
C25_ReconcilerFrame ==
    (called = "ensure" /\ Len(lists_payload_given) > 0) =>
        LET n == Len(lists_payload_given)
            before == PlaceholdersIn(lists_payload_given)
        IN  /\ IF GivenRemainder > PERCENT_TOLERANCE
               THEN IF before # {}
                    THEN /\ Len(lists_payload) = n
                         /\ \E k \in before :
                               /\ KeptExcept(k)
                               /\ lists_payload[k].percentage =
                                     lists_payload_given[k].percentage + GivenRemainder
                    ELSE /\ Len(lists_payload) = n + 1
                         /\ KeptExcept(0)
                         /\ lists_payload[n + 1].id = None
                         /\ lists_payload[n + 1].name = OTROS
                         /\ lists_payload[n + 1].percentage = GivenRemainder
                         /\ lists_payload[n + 1].seats = 0
                         /\ lists_payload[n + 1].passes_threshold = "False"
                         /\ lists_payload[n + 1].updated_at = latest_update_arg
               ELSE /\ Len(lists_payload) = n
                    /\ KeptExcept(0)
            /\ Cardinality(before) <= 1 =>
                  Cardinality(PlaceholdersIn(lists_payload)) <= 1
            /\ \A j \in 1..n : lists_payload[j].seats = lists_payload_given[j].seats

\* A list named 'Otros' with 2 seats and the placeholder, 40.00 each: the
\* placeholder, in second place, takes the 20.00 and nothing is appended.
C25_Witness ==
    /\ called = "ensure"
    /\ Len(lists_payload_given) = 2
    /\ lists_payload_given[1].id = 1 /\ lists_payload_given[1].name = OTROS
    /\ lists_payload_given[1].seats = 2
    /\ PlaceholdersIn(lists_payload_given) = {2}
    /\ GivenRemainder = 2000
    /\ Len(lists_payload) = 2
    /\ lists_payload[2].percentage = 6000
    /\ lists_payload[1].percentage = 4000
    /\ lists_payload[1].seats = 2

\* The place of a senate list among the reported senate lists of its
\* district, by descending percentage and then ascending id, counted from 0.
SenateRank(l) ==
    Cardinality({o \in ReportedLists(lists[l].district, SENATORS) :
        \/ Reported(o) > Reported(l)
        \/ Reported(o) = Reported(l) /\ o < l})

\* The seats of the majority and of the first minority
SenateSeatsOfRank(r, senator_seats) ==
    IF r = 0 THEN Max(0, Min(senator_seats, 2))
    ELSE IF r = 1 /\ senator_seats >= 3 THEN 1
    ELSE 0

\* C15: the senate chamber has no threshold and no aggregation of minor
\* lists: every senate list with a reported percentage, also one under 3.00
\* or at 0.00, is ranked for the seats with all the others and has its own
\* entry in the senators list; the only entry without id is the remainder
\* the reconciliation adds, which holds none of the reported percentages.
C15_SenateNoThreshold ==
    Served =>
        \A i \in 1..Len(response.districts) :
            LET dd == response.districts[i]
                entries == dd.senators.lists
                reported == ReportedLists(dd.id, SENATORS)
            IN  /\ \A l \in reported :
                      /\ Cardinality({k \in 1..Len(entries) : entries[k].id = l}) = 1
                      /\ \A k \in 1..Len(entries) :
                            entries[k].id = l =>
                                /\ entries[k].percentage = Reported(l)
                                /\ entries[k].seats =
                                       SenateSeatsOfRank(SenateRank(l), dd.senators.seats)
                /\ \A k \in 1..Len(entries) :
                      entries[k].id = None =>
                          /\ entries[k].seats = 0
                          /\ entries[k].percentage =
                                 TOTAL_PERCENTAGE - ReportedTotal(dd.id, SENATORS)
                /\ ShownSum(entries) = ReportedTotal(dd.id, SENATORS)

C15_Witness ==
    /\ Served
    /\ \E i \in 1..Len(response.districts) :
          LET entries == response.districts[i].senators.lists
          IN  /\ \E k \in 1..Len(entries) :
                    /\ entries[k].id # None
                    /\ entries[k].percentage = 250
                    /\ entries[k].seats = 2
              /\ \E k \in 1..Len(entries) :
                    /\ entries[k].id # None
                    /\ entries[k].percentage = 0
                    /\ entries[k].seats = 1

\* Entry a does not come after entry b under the key descending seats, then
\* descending percentage, then ascending name.
NotAfter(a, b) ==
    \/ a.seats > b.seats
    \/ /\ a.seats = b.seats
       /\ \/ a.percentage > b.percentage
          \/ a.percentage = b.percentage /\ ~StrLess(b.name, a.name)

\* C16: each chamber's final entry list of a district, the "Otros" entry
\* included, is ordered by descending seats, then descending percentage, then
\* ascending name: of two consecutive entries the earlier is not greater.
C16_EntriesOrdered ==
    Served =>
        \A i \in 1..Len(response.districts), chamber \in {DEPUTIES, SENATORS} :
            LET entries == ChamberLists(response.districts[i], chamber)
            IN  \A k \in 1..(Len(entries) - 1) : NotAfter(entries[k], entries[k + 1])

C16_Witness ==
    /\ Served
    /\ \E i \in 1..Len(response.districts) :
          LET entries == response.districts[i].deputies.lists
          IN  /\ Len(entries) = 3
              /\ entries[1].name = <<66>>
              /\ entries[1].seats > 0
              /\ entries[2].id = None
              /\ entries[2].percentage > entries[1].percentage
              /\ entries[3].name = <<65>>
              /\ entries[3].seats = 0

\* The seats the response shows, over all districts, for the entries of a
\* chamber that carry the alignment.
SeatsOfEntries(chamber, alignment) ==
    SumSeq([i \in 1..Len(response.districts) |->
        SumField(ChamberLists(response.districts[i], chamber),
                 LAMBDA e : IF e.alignment = alignment THEN e.seats ELSE 0)])

\* The alignments of a chamber's entries in the response
AlignmentsOf(chamber) ==
    UNION {{ChamberLists(response.districts[i], chamber)[k].alignment
                : k \in 1..Len(ChamberLists(response.districts[i], chamber))}
              : i \in 1..Len(response.districts)}

\* C17: the items of each national aggregate are ordered by descending seat
\* total, then descending accumulated voter-weighted votes, then ascending
\* alignment name, and each alignment with seats or weighted votes in the
\* chamber appears exactly once.
C17_ItemsOrdered ==
    Served =>
        \A b \in 1..Len(response.overall_distributions) :
            LET block == response.overall_distributions[b]
                chamber == BlockChamber(block)
                items == block.items
                weighted(k) == WeightedOfAlignment(chamber, items[k].name)
            IN  /\ \A k \in 1..(Len(items) - 1) :
                      \/ items[k].seats > items[k + 1].seats
                      \/ /\ items[k].seats = items[k + 1].seats
                         /\ \/ weighted(k) > weighted(k + 1)
                            \/ /\ weighted(k) = weighted(k + 1)
                               /\ StrLess(items[k].name, items[k + 1].name)
                /\ \A a \in AlignmentsOf(chamber) :
                      (SeatsOfEntries(chamber, a) > 0 \/ WeightedOfAlignment(chamber, a) > 0)
                          => Cardinality({k \in 1..Len(items) : items[k].name = a}) = 1
                /\ \A k, m \in 1..Len(items) : items[k].name = items[m].name => k = m

C17_Witness ==
    /\ Served
    /\ \E b \in 1..Len(response.overall_distributions) :
          LET block == response.overall_distributions[b]
              items == block.items
          IN  /\ block.label = "Diputados"
              /\ Len(items) = 3
              /\ items[1].seats > items[2].seats
              /\ items[1].name = <<70>>
              /\ items[2].seats = items[3].seats
              /\ WeightedOfAlignment(DEPUTIES, items[2].name)
                    > WeightedOfAlignment(DEPUTIES, items[3].name)
              /\ items[2].name = OTROS
              /\ items[3].name = <<65>>

\* The labels of the blocks of overall_distributions and of the stats
BlockLabels == [b \in 1..Len(response.overall_distributions) |->
                   response.overall_distributions[b].label]
StatLabels == {response.stats[k].label : k \in 1..Len(response.stats)}

\* What the filter 'diputados' and the filter 'senadores' show
FilterShowsItsChamber ==
    /\ response.chamber_filter = DEPUTIES =>
          /\ BlockLabels = <<"Diputados">>
          /\ "Bancas diputados en disputa" \in StatLabels
          /\ "Bancas senadores en disputa" \notin StatLabels
    /\ response.chamber_filter = SENATORS =>
          /\ BlockLabels = <<"Senadores">>
          /\ "Bancas senadores en disputa" \in StatLabels
          /\ "Bancas diputados en disputa" \notin StatLabels

\* C18 as stated: the effective filter is one of 'ambos', 'diputados',
\* 'senadores'; a requested value outside these falls back to 'ambos'; the
\* filter 'diputados' shows the deputies block and stat only and the filter
\* 'senadores' the senators block and stat only.
C18_Original ==
    Served =>
        /\ response.chamber_filter \in VALID_CHAMBER_FILTERS
        /\ request.chamber \notin VALID_CHAMBER_FILTERS =>
              response.chamber_filter = DEFAULT_CHAMBER_FILTER
        /\ request.chamber \in VALID_CHAMBER_FILTERS =>
              response.chamber_filter = request.chamber
        /\ FilterShowsItsChamber

\* The requested value with its capital letters A-Z made small
Lowercased(s) == [i \in 1..Len(s) |-> IF s[i] \in 65..90 THEN s[i] + 32 ELSE s[i]]

\* C18 amended: the effective filter is one of 'ambos', 'diputados',
\* 'senadores': it is the requested value in lower case when that is one of
\* the three and 'ambos' otherwise; the filter 'diputados' shows the deputies
\* block and stat only and the filter 'senadores' the senators block and
\* stat only.
C18_FilterLowercased ==
    Served =>
        /\ response.chamber_filter \in VALID_CHAMBER_FILTERS
        /\ response.chamber_filter =
              (IF Lowercased(request.chamber) \in VALID_CHAMBER_FILTERS
               THEN Lowercased(request.chamber) ELSE DEFAULT_CHAMBER_FILTER)
        /\ FilterShowsItsChamber

C18_Witness ==
    /\ Served
    /\ request.chamber = <<83, 69, 78, 65, 68, 79, 82, 69, 83>>
    /\ response.chamber_filter = SENATORS
    /\ BlockLabels = <<"Senadores">>
    /\ Len(response.overall_distributions[1].items) > 0
    /\ Len(response.districts) = 1

----------------------------------------------------------------------------
(* Properties of district_detail, checked under SpecDetail *)

Detailed == called = "district_detail"

\* C19: district_detail called with a chamber other than 'diputados' and
\* 'senadores', or with the id of a district that does not exist, ends in
\* "not found" (404) without a call of _dhondt_allocation or of
\* _senate_allocation and without a result list.
C19_NotFound ==
    (/\ Detailed
     /\ \/ request.chamber \notin {DEPUTIES, SENATORS}
        \/ request.district_id \notin DOMAIN districts) =>
        /\ response.status = 404
        /\ response.allocator_calls = <<>>
        /\ "lists" \notin DOMAIN response

C19_Witness ==
    /\ Detailed
    /\ request.district_id = 1
    /\ request.chamber = <<68, 73, 80, 85, 84, 65, 68, 79, 83>>
    /\ ReportedLists(1, DEPUTIES) # {}
    /\ response.status = 404
    /\ response.allocator_calls = <<>>

----------------------------------------------------------------------------
(* Properties of the data-entry POST, checked under SpecIngest *)

Posted == called = "post"

\* The field of the request under a key: absent, or its text
FieldAbsent(values) == values = <<>>
FieldText(values) == values[Len(values)]
FieldBlank(values) == FieldAbsent(values) \/ FieldText(values) = <<>>

\* The texts of PercentageTexts that are percentages of [0, 100] with at
\* most two decimals, and what each is worth in hundredths
AcceptedTexts == {<<53, 53, 46, 53, 48>>, <<50, 46, 53>>, <<49, 48, 48>>}
Hundredths(text) ==
    CASE text = <<53, 53, 46, 53, 48>> -> 5550
      [] text = <<50, 46, 53>> -> 250
      [] text = <<49, 48, 48>> -> 10000

\* The selection of the request names a district of the table and a chamber
SelectionGood ==
    /\ ~FieldAbsent(request.POST.district)
    /\ FieldText(request.POST.district) \in {<<49>>, <<50>>}
    /\ ~FieldAbsent(request.POST.chamber)
    /\ FieldText(request.POST.chamber) \in {DEPUTIES, SENATORS}

PostedDistrict == FieldText(request.POST.district)[1] - 48
PostedChamber == FieldText(request.POST.chamber)

\* The lists the request is about
PostedLists ==
    {l \in DOMAIN lists : /\ lists[l].district = PostedDistrict
                          /\ lists[l].chamber = PostedChamber}

ListFieldGood(l) ==
    \/ FieldBlank(request.POST.percentage[l])
    \/ FieldText(request.POST.percentage[l]) \in AcceptedTexts

RowsOf(table, l) == {r \in table : r.election_list = l}

\* C21: after a POST whose selection and list forms are all valid, every
\* list of the selected district and chamber has exactly one Scrutiny row,
\* a new one with the percentage submitted, if a value was submitted for
\* it, and no row if its field was blank or absent.
C21_PostReplacesRecords ==
    (Posted /\ SelectionGood /\ (\A l \in PostedLists : ListFieldGood(l))) =>
        /\ response.status = 302
        /\ \A l \in PostedLists :
              IF FieldBlank(request.POST.percentage[l])
              THEN RowsOf(scrutiny, l) = {}
              ELSE /\ Cardinality(RowsOf(scrutiny, l)) = 1
                   /\ \A r \in RowsOf(scrutiny, l) :
                         /\ r.percentage = Hundredths(FieldText(request.POST.percentage[l]))
                         /\ r \notin scrutiny_found

\* Deputies of district 1: list 1 had two rows and now has one, at 55.50;
\* list 2 had one row, was submitted blank and has none.
C21_Witness ==
    /\ Posted
    /\ response.status = 302
    /\ SelectionGood /\ PostedDistrict = 1 /\ PostedChamber = DEPUTIES
    /\ Cardinality(RowsOf(scrutiny_found, 1)) = 2
    /\ request.POST.percentage[1] = << <<53, 53, 46, 53, 48>> >>
    /\ {r.percentage : r \in RowsOf(scrutiny, 1)} = {5550}
    /\ Cardinality(RowsOf(scrutiny, 1)) = 1
    /\ RowsOf(scrutiny_found, 2) # {}
    /\ request.POST.percentage[2] = << <<>> >>
    /\ RowsOf(scrutiny, 2) = {}

\* C29: a POST whose selection is invalid, or in which the field of a list
\* of the selected district and chamber is invalid, leaves the Scrutiny
\* table as it found it; a valid POST leaves as they were the rows of the
\* lists of the other district and of the other chamber.
C29_AllOrNothing ==
    Posted =>
        IF SelectionGood /\ (\A l \in PostedLists : ListFieldGood(l))
        THEN \A l \in (DOMAIN lists) \ PostedLists :
                RowsOf(scrutiny, l) = RowsOf(scrutiny_found, l)
        ELSE /\ scrutiny = scrutiny_found
             /\ response.status = 200

\* Deputies of district 1 with 55.50 for list 1 and 100.01 for list 2: the
\* two rows of list 1 and the row of list 2 are still there.
C29_Witness ==
    /\ Posted
    /\ SelectionGood /\ PostedDistrict = 1 /\ PostedChamber = DEPUTIES
    /\ request.POST.percentage[1] = << <<53, 53, 46, 53, 48>> >>
    /\ request.POST.percentage[2] = << <<49, 48, 48, 46, 48, 49>> >>
    /\ response.status = 200
    /\ response.list_errors = {2}
    /\ Cardinality(RowsOf(scrutiny, 1)) = 2
    /\ RowsOf(scrutiny, 2) # {}
    /\ scrutiny = scrutiny_found

----------------------------------------------------------------------------
(* Further properties of the dashboard, checked under SpecDash *)

\* A district has data for a chamber when the chamber's entry list is not
\* empty: a deputies list reported above 0.00, or any senate list reported.
HasData(d, chamber) ==
    IF chamber = DEPUTIES
    THEN \E l \in ReportedLists(d, DEPUTIES) : Reported(l) > 0
    ELSE ReportedLists(d, SENATORS) # {}

\* The chambers the effective filter includes
Included(chamber) == response.chamber_filter \in {DEFAULT_CHAMBER_FILTER, chamber}

StatusOf(d) ==
    response.district_statuses[CHOOSE i \in 1..Len(response.district_statuses) :
                                   response.district_statuses[i].id = d]

ShownAt(d) == {i \in 1..Len(response.districts) : response.districts[i].id = d}

\* C22: every district has exactly one element of district_statuses, with
\* has_deputies and has_senators telling whether the district's entry list
\* of that chamber is non-empty; a district is in 'districts', once, exactly
\* when it has data for a chamber the filter includes; and a district with
\* no reported percentage for a chamber has no data for it.
C22_StatusesAndDistricts ==
    Served =>
        /\ Len(response.district_statuses) = Cardinality(DOMAIN districts)
        /\ \A d \in DOMAIN districts :
              /\ \E i \in 1..Len(response.district_statuses) :
                    response.district_statuses[i].id = d
              /\ StatusOf(d).has_deputies = HasData(d, DEPUTIES)
              /\ StatusOf(d).has_senators = HasData(d, SENATORS)
              /\ \A chamber \in {DEPUTIES, SENATORS} :
                    ReportedLists(d, chamber) = {} => ~HasData(d, chamber)
              /\ Cardinality(ShownAt(d)) =
                    (IF \E chamber \in {DEPUTIES, SENATORS} :
                            Included(chamber) /\ HasData(d, chamber)
                     THEN 1 ELSE 0)
              /\ \A i \in ShownAt(d) :
                    /\ StatusOf(d).has_deputies =
                          (Len(response.districts[i].deputies.lists) > 0)
                    /\ StatusOf(d).has_senators =
                          (Len(response.districts[i].senators.lists) > 0)

\* Under the filter 'diputados' district 1, which has reports for the senate
\* only, has its status and is not among the districts; district 2 is there.
C22_Witness ==
    /\ Served
    /\ response.chamber_filter = DEPUTIES
    /\ ~StatusOf(1).has_deputies /\ StatusOf(1).has_senators
    /\ ShownAt(1) = {}
    /\ StatusOf(2).has_deputies /\ ~StatusOf(2).has_senators
    /\ ShownAt(2) = {1}
    /\ Len(response.district_statuses) = 2

\* The numerators of the shares of a block, which all stand over the
\* registered voters of the contributing districts
ShareNumerators(block) == SumSeq([k \in 1..Len(block.items) |-> block.items[k].share[1]])

\* C30: in a chamber with at least one contributing district, when the
\* reported percentages of every contributing district sum to at most
\* 100.00, the national shares of the alignments sum to 100 within 0.01:
\* the weighted votes are 100 times the registered voters of the
\* contributing districts, less at most 0.01 per voter.
C30_SharesSumTo100 ==
    Served =>
        \A b \in 1..Len(response.overall_distributions) :
            LET block == response.overall_distributions[b]
                chamber == BlockChamber(block)
            IN  (/\ Contributing(chamber) # {}
                 /\ \A i \in Contributing(chamber) :
                       ReportedTotal(response.districts[i].id, chamber) <= TOTAL_PERCENTAGE) =>
                    /\ \A k \in 1..Len(block.items) :
                          block.items[k].share[2] = ElectorsOf(chamber)
                    /\ ShareNumerators(block) <= TOTAL_PERCENTAGE * ElectorsOf(chamber)
                    /\ ShareNumerators(block) >=
                          (TOTAL_PERCENTAGE - PERCENT_TOLERANCE) * ElectorsOf(chamber)

\* Two districts with 2 and 1 registered voters contribute to the deputies:
\* the one reported at 40.00 and 60.00, the other at 40.00 alone; the shares
\* of the alignments, 'Otros' among them, are thirds that sum to 100.00.
C30_Witness ==
    /\ Served
    /\ Cardinality(Contributing(DEPUTIES)) = 2
    /\ ElectorsOf(DEPUTIES) = 3
    /\ {ReportedTotal(response.districts[i].id, DEPUTIES) : i \in Contributing(DEPUTIES)}
          = {4000, 10000}
    /\ \E b \in 1..Len(response.overall_distributions) :
          LET block == response.overall_distributions[b]
          IN  /\ block.label = "Diputados"
              /\ Len(block.items) >= 3
              /\ \E k \in 1..Len(block.items) :
                    block.items[k].name = OTROS /\ block.items[k].share[1] > 0
              /\ ShareNumerators(block) = 30000

----------------------------------------------------------------------------
(* Properties of the dashboard and district_detail together, checked under
   SpecPortal *)

\* The entries of lists in the district results of the dashboard
DashboardEntries ==
    UNION {Range(ChamberLists(response.districts[i], chamber)) :
              i \in 1..Len(response.districts), chamber \in {DEPUTIES, SENATORS}}

\* The entries either view shows
ShownEntries == IF Served THEN DashboardEntries ELSE Range(response.lists)

\* The Scrutiny rows of a list
Records(l) == {r \in scrutiny : r.election_list = l}

\* C26: the percentage the dashboard and district_detail show for a list,
\* and allot seats by, is that of its Scrutiny row with the greatest
\* updated_at, however many rows it has; a list without rows has no entry
\* and no seat.
C26_LatestRecordUsed ==
    (Served \/ (Detailed /\ response.status = 200)) =>
        /\ \A e \in ShownEntries :
              e.id # None =>
                 /\ Records(e.id) # {}
                 /\ \E r \in Records(e.id) :
                       /\ \A o \in Records(e.id) : o.updated_at <= r.updated_at
                       /\ e.percentage = r.percentage
                       /\ e.updated_at = r.updated_at
        /\ \A a, b \in ShownEntries :
              (/\ a.id # None /\ b.id # None
               /\ lists[a.id].district = lists[b.id].district
               /\ lists[a.id].chamber = lists[b.id].chamber
               /\ Reported(a.id) > Reported(b.id)) => a.seats >= b.seats

\* The dashboard with list 1 at 40.00 in the row saved last and at 60.00 in
\* an earlier row with a higher pk, list 2 at 40.00 and list 3 without rows:
\* list 1 is shown at 40.00 and, inserted after list 2, has 1 of the 3 seats.
C26_Witness ==
    /\ Served
    /\ Cardinality(Records(1)) = 2
    /\ \E r \in Records(1) : r.pk = 1 /\ r.percentage = 4000 /\ r.updated_at = 9
    /\ \E r \in Records(1) : r.pk = 10 /\ r.percentage = 6000 /\ r.updated_at = 8
    /\ Records(3) = {}
    /\ \E e \in DashboardEntries : e.id = 1 /\ e.percentage = 4000 /\ e.seats = 1
    /\ \E e \in DashboardEntries : e.id = 2 /\ e.percentage = 4000 /\ e.seats = 2
    /\ \A e \in DashboardEntries : e.id # 3

\* The entries of a chamber that the dashboard, served first, showed for the
\* district of the detail
DashboardShowed ==
    UNION {Range(ChamberLists(response_before.districts[i], request.chamber)) :
              i \in {j \in 1..Len(response_before.districts) :
                        response_before.districts[j].id = request.district_id}}

\* C28: on the same snapshot, a list that has its own entry in the dashboard
\* and in district_detail has the same seats in both, every list entry of
\* the dashboard is a list entry of district_detail, and a list that
\* district_detail shows and the dashboard does not show by itself, its
\* votes being those of 'Otros', has 0 seats in district_detail.
C28_ViewsAgree ==
    (Detailed /\ response.status = 200 /\ response_before.view = "dashboard") =>
        /\ \A x \in DashboardShowed :
              x.id # None =>
                 \E e \in Range(response.lists) : e.id = x.id /\ e.seats = x.seats
        /\ \A e \in Range(response.lists) :
              (/\ e.id # None
               /\ DashboardShowed # {}
               /\ \A x \in DashboardShowed : x.id # e.id) =>
                  e.seats = 0

\* The deputies of district 1 after the dashboard: lists 1 and 2, tied at
\* 40.00, have 1 and 2 seats in both views; list 3, at 2.50, is in 'Otros'
\* in the dashboard and has its entry without seats in the detail.
C28_Witness ==
    /\ Detailed
    /\ response.status = 200
    /\ response_before.view = "dashboard"
    /\ request.district_id = 1 /\ request.chamber = DEPUTIES
    /\ \E x \in DashboardShowed : x.id = 1 /\ x.seats = 1 /\ x.percentage = 4000
    /\ \E x \in DashboardShowed : x.id = 2 /\ x.seats = 2 /\ x.percentage = 4000
    /\ \E x \in DashboardShowed : x.id = None /\ x.percentage = 2000
    /\ \A x \in DashboardShowed : x.id # 3
    /\ \E e \in Range(response.lists) : e.id = 1 /\ e.seats = 1
    /\ \E e \in Range(response.lists) : e.id = 2 /\ e.seats = 2
    /\ \E e \in Range(response.lists) : e.id = 3 /\ e.seats = 0 /\ e.percentage = 250

====
